---------------------------- MODULE Spec2Model ----------------------------
(***************************************************************************)
(* Place Resolution & Adaptive Scoring Engine (Elev8Trades backend).       *)
(*                                                                         *)
(* The repository carries several generations of POST /api/analyze.  The  *)
(* model keeps four of them side by side, one request at a time:          *)
(*   "paths"  - src/unnamed/part_002 lines 400-550 (SITE_ONLY_FORCED ...)  *)
(*   "v1"     - src/unnamed/part_003 lines 1141-1354 (Scoring Spec v1)     *)
(*   "legacy" - src/unnamed/part_004 lines 251-478 (Gemini-weighted score) *)
(*   "clarify"- src/unnamed/part_002 lines 1747-2057 (candidate choice)    *)
(* Numbers the code keeps as floats are kept as scaled integers: a rating  *)
(* r is rating10 = 10*r, a [0,1] norm n is 100*n, a CTA score is 2*cta.    *)
(***************************************************************************)
EXTENDS Integers, Sequences, FiniteSets, TLC

VARIABLES
    server,     \* which generation of the handler serves the request
    req,        \* the request body (the fields the handler destructures)
    pc,         \* position of the handler between its awaits
    placeId,    \* resolved place identifier, or NoPlace
    details,    \* place details record, or NoDetails
    site,       \* result of the website probe and homepage scoring
    resp,       \* the response sent, or NoResp
    prev,       \* outcome of the previous scored request (history)
    fn,         \* scratch record of the function-level specifications
    directory,  \* what the places directory returns for a matching query
    placeCache, \* the in-memory TTL cache of part_002 (_cache), place: keys
    rs,         \* the resolvePlace call in progress
    rprev,      \* the resolvePlace call completed before (history)
    found,      \* what the place search of the request in progress returned
    llm         \* the API keys configured, and the LLM step of the request

\* the variables of the request handlers and of the scoring functions
main ==
    <<server, req, pc, placeId, details, site, resp, prev, fn, found, llm>>

\* the variables of the resolver
resolver == <<directory, placeCache, rs, rprev>>

\* what the handlers written first leave alone
aux == <<resolver, found, llm>>

vars == <<main, aux>>

\* no resolvePlace call in progress (or noted)
NoCall == [phase |-> "idle"]

\* a place search ran to its end: the number of candidates it returned, and
\* whether one of them lists exactly the supplied website's host
MkFound(n, exact) == [searched |-> TRUE, n |-> n, exact |-> exact]

\* no place search ran, or it threw
NoFound == [searched |-> FALSE, n |-> 0, exact |-> FALSE]

\* the resolver at rest: nothing in the directory, an empty cache
\* process.env has the directory key / the LLM key; how the LLM call went
\* ("none": not made); how the response reports the qualitative sub-scores
\* ("none": no detailedScores in it, "zero": as 0, "value": as scored)
MkLlm(mapsKey, key, call, reported) ==
    [mapsKey |-> mapsKey, key |-> key, call |-> call, reported |-> reported]

NoLlm == MkLlm(TRUE, TRUE, "none", "none")

\* the resolver at rest: nothing in the directory, an empty cache
AuxIdle ==
    /\ directory = <<>> /\ placeCache = {}
    /\ rs = NoCall /\ rprev = NoCall
    /\ found = NoFound /\ llm = NoLlm

-----------------------------------------------------------------------------
(* Arithmetic helpers                                                      *)

\* Math.max(min, Math.min(max, n))
clamp(n, min, max) == IF n < min THEN min ELSE IF n > max THEN max ELSE n

\* Math.round of the rational num/den (den > 0): nearest integer, ties up
Round(num, den) == (2 * num + den) \div (2 * den)

Min(a, b) == IF a < b THEN a ELSE b
Max(a, b) == IF a > b THEN a ELSE b

-----------------------------------------------------------------------------
(* Place details as the directory returns them                             *)

HoursKinds == {"none", "listed", "open", "closed"}

\* rating10 = 10 * rating; photos = number of photo references;
\* hours: "none" no opening_hours, "listed" opening_hours without open_now,
\* "open"/"closed" opening_hours.open_now true/false;
\* inTypes: some entry of types contains the request's trade label;
\* inSummary: editorial_summary.overview (or, without one, types[0]) does.
MkDetails(r10, rev, ph, hrs, inT, inS, web, phone) ==
    [rating10 |-> r10, reviews |-> rev, photos |-> ph, hours |-> hrs,
     inTypes |-> inT, inSummary |-> inS, website |-> web, phone |-> phone]

NoDetails == [rating10 |-> 0, reviews |-> 0, photos |-> 0, hours |-> "absent",
              inTypes |-> FALSE, inSummary |-> FALSE, website |-> FALSE,
              phone |-> FALSE]

\* d.data.result missing: the v1 handler continues with {}
EmptyDetails == MkDetails(0, 0, 0, "none", FALSE, FALSE, FALSE, FALSE)

-----------------------------------------------------------------------------
(* "paths" server: GBP and website scores (part_002)                       *)

volumePctFromReviews(reviews) ==
    IF reviews >= 100 THEN 100
    ELSE IF reviews >= 50 THEN 85
    ELSE IF reviews >= 20 THEN 70
    ELSE IF reviews >= 5 THEN 50
    ELSE 20

\* scoreGBP(details, businessType); hasTrade = businessType is non-blank
scoreGBP(d, hasTrade) ==
    IF d = NoDetails
    THEN [gbpScore |-> 0, ratingPct |-> 0, volumePct |-> 0, categoryPct |-> 0,
          photosPct |-> 0, hoursPct |-> 0]
    ELSE LET ratingPct   == Round(d.rating10 * 100, 50)
             volumePct   == volumePctFromReviews(d.reviews)
             categoryPct == IF hasTrade
                            THEN (IF d.inTypes THEN 100 ELSE 50)
                            ELSE 60
             photosPct   == Max(0, Min(100, d.photos * 5))
             hoursPct    == IF d.hours \in {"open", "closed"} THEN 80 ELSE 40
         IN [gbpScore |-> Round(35 * ratingPct + 25 * volumePct
                                + 15 * categoryPct + 15 * photosPct
                                + 10 * hoursPct, 100),
             ratingPct |-> ratingPct, volumePct |-> volumePct,
             categoryPct |-> categoryPct, photosPct |-> photosPct,
             hoursPct |-> hoursPct]

\* extractSiteSignals: the five facts read off the homepage markup
MkSignals(titleLen, hasMetaDesc, telCount, h1Count) ==
    [titleLen |-> titleLen, hasMetaDesc |-> hasMetaDesc, telCount |-> telCount,
     h1Count |-> h1Count,
     ctaBonus |-> Min(10, Max(0, telCount - 1) * 2)]

\* extractSiteSignals("") : nothing found
NoSignals == MkSignals(0, FALSE, 0, 0)

scoreWebsite(signals, reachable) ==
    LET b0 == 20
        b1 == b0 + (IF signals.titleLen >= 10 THEN 10 ELSE 0)
        b2 == b1 + (IF signals.titleLen >= 30 THEN 10 ELSE 0)
        b3 == b2 + (IF signals.hasMetaDesc THEN 10 ELSE 0)
        b4 == b3 + (IF signals.h1Count >= 1 THEN 10 ELSE 0)
        b5 == b4 + signals.ctaBonus
        b6 == IF reachable THEN b5 ELSE b5 - 30
    IN Max(0, Min(100, b6))

-----------------------------------------------------------------------------
(* "v1" server: GBP score, CTA score, site weights (part_003)              *)

\* scoreReviewVolume with 100-249 reviews left in the 0.80 bucket
scoreReviewVolumeNoNinety(count) ==
    IF count <= 0 THEN 0
    ELSE IF count < 5 THEN 25
    ELSE IF count < 20 THEN 40
    ELSE IF count < 50 THEN 60
    ELSE IF count < 250 THEN 80
    ELSE 100

\* scoreReviewVolume(count), as 100 * norm
scoreReviewVolume(count) ==
    IF count <= 0 THEN 0
    ELSE IF count < 5 THEN 25
    ELSE IF count < 20 THEN 40
    ELSE IF count < 50 THEN 60
    ELSE IF count < 100 THEN 80
    ELSE IF count < 250 THEN 90
    ELSE 100

\* The weighted sum of computeGbpScore is evaluated in IEEE-754 doubles.  It
\* differs from the exact sum only at these exact .5 ties, where the double
\* falls just below the tie and Math.round goes down:
\* <<rating10, 100*volNorm, 100*categoryNorm, photosNorm, hoursNorm>>.
GbpFloatTieDown ==
    { <<0, 90, 100, 1, 1>>, <<0, 90, 80, 0, 1>>, <<0, 90, 80, 1, 0>>,
      <<0, 90, 80, 1, 1>>, <<5, 90, 60, 0, 1>>, <<5, 90, 60, 1, 0>>,
      <<5, 90, 60, 1, 1>>, <<15, 90, 60, 0, 0>>, <<15, 90, 60, 0, 1>>,
      <<15, 90, 60, 1, 0>>, <<15, 90, 60, 1, 1>>, <<15, 90, 80, 0, 1>>,
      <<15, 90, 80, 1, 0>>, <<15, 90, 80, 1, 1>>, <<20, 90, 60, 0, 1>>,
      <<20, 90, 60, 1, 0>>, <<30, 90, 60, 0, 0>>, <<30, 90, 60, 0, 1>>,
      <<30, 90, 60, 1, 0>>, <<30, 90, 60, 1, 1>>, <<30, 90, 80, 1, 1>>,
      <<50, 90, 60, 1, 1>> }

\* The five norms of computeGbpScore, each as 100 * norm (rating: 10 * rating)
GbpNorms(d, hasTrade) ==
    [rating10 |-> clamp(d.rating10, 0, 50),
     vol      |-> scoreReviewVolume(d.reviews),
     cat      |-> IF hasTrade THEN (IF d.inSummary THEN 100 ELSE 60) ELSE 80,
     photos   |-> IF d.photos > 0 THEN 1 ELSE 0,
     hours    |-> IF d.hours \in {"listed", "open", "closed"} THEN 1 ELSE 0]

\* 100 * (the weighted sum of norms times 100): W = 0.40/0.25/0.15/0.10/0.10
GbpWeighted(n) ==
    80 * n.rating10 + 25 * n.vol + 15 * n.cat + 1000 * n.photos + 1000 * n.hours

\* computeGbpScore(details, expectedTradeLabel).score
computeGbpScore(d, hasTrade) ==
    LET n == GbpNorms(d, hasTrade)
        x == GbpWeighted(n)
    IN IF <<n.rating10, n.vol, n.cat, n.photos, n.hours>> \in GbpFloatTieDown
       THEN Round(x, 100) - 1
       ELSE Round(x, 100)

\* gbpSignalsPresent of the v1 handler
gbpSignalsPresent(d) ==
    d.rating10 > 0 \/ d.reviews > 0 \/ d.photos > 0
        \/ d.hours \in {"listed", "open", "closed"}

\* A homepage as the extractors see it.  seo is the return of scoreSEO, which
\* is clamp(pts, 0, 100); the CTA facts feed scoreCTA; the title/meta/h1/tel
\* facts feed extractSiteSignals of the "paths" server.
MkPage(seo, tel, ctaNodes, forms, emergency, titleLen, meta, h1) ==
    [seo |-> seo, telCount |-> tel, ctaNodes |-> ctaNodes, forms |-> forms,
     emergency |-> emergency, titleLen |-> titleLen, hasMetaDesc |-> meta,
     h1Count |-> h1]

\* no HTML obtained (fetch failed, not text/html, or never fetched)
NoPage == MkPage(0, 0, 0, 0, FALSE, 0, FALSE, 0)

extractSiteSignals(page) ==
    MkSignals(page.titleLen, page.hasMetaDesc, page.telCount, page.h1Count)

\* scoreCTA({$, placePhone, placeHours}).cta, as 2 * cta (tel links add 2.5)
scoreCTA(page, placePhone, placeHours) ==
    LET tel  == IF page.telCount >= 1
                THEN 50 + (IF page.telCount >= 2
                           THEN Min(10, (page.telCount - 1) * 5) ELSE 0)
                ELSE 0
        cta  == (IF page.ctaNodes >= 1 THEN 30 ELSE 0)
                + Min(20, Max(0, (page.ctaNodes - 1) * 10))
        frm  == IF page.forms > 0 THEN 10 ELSE 0
        ph   == (IF placePhone THEN 20 ELSE 0) + (IF placeHours THEN 10 ELSE 0)
        emg  == IF page.emergency THEN 10 ELSE 0
        pen  == IF ~placePhone /\ page.forms = 0 /\ page.ctaNodes = 0
                THEN 30 ELSE 0
    IN clamp(tel + cta + frm + ph + emg - pen, 0, 200)

\* Trade labels a request may carry ("" = none given)
TradeKey(trade) ==
    CASE trade \in {"roofing", "roofer"}  -> "roofing"
      [] trade \in {"plumbing", "plumber"} -> "plumbing"
      [] trade = "hvac install"           -> "hvacInstall"
      [] trade \in {"hvac repair", "heating"} -> "hvacRepair"
      [] OTHER                            -> "default"

\* SITE_WEIGHTS, as percentages <<seo, cta>>
SITE_WEIGHTS(key) ==
    CASE key = "roofing"     -> <<55, 45>>
      [] key = "plumbing"    -> <<45, 55>>
      [] key = "hvacRepair"  -> <<45, 55>>
      [] key = "hvacInstall" -> <<65, 35>>
      [] key = "emergency"   -> <<50, 50>>
      [] OTHER               -> <<60, 40>>

pickSiteWeights(trade, emergencyMode) ==
    IF emergencyMode THEN SITE_WEIGHTS("emergency")
    ELSE SITE_WEIGHTS(TradeKey(trade))

\* Math.round(w.seo * seo + w.cta * cta) in doubles: below the exact tie at
\* these <<seo weight, seo, 2 * cta>>
SiteFloatTieDown ==
    { <<65, 0, 180>>, <<65, 1, 102>>, <<65, 1, 142>>, <<65, 2, 24>>,
      <<65, 2, 184>>, <<65, 3, 106>>, <<65, 3, 146>>, <<65, 4, 68>>,
      <<65, 6, 192>>, <<65, 7, 194>>, <<65, 8, 116>> }

\* siteScore = Math.round(w.seo * seo + w.cta * cta)
siteScoreV1(w, seo, cta2) ==
    IF <<w[1], seo, cta2>> \in SiteFloatTieDown
    THEN Round(2 * w[1] * seo + w[2] * cta2, 200) - 1
    ELSE Round(2 * w[1] * seo + w[2] * cta2, 200)

\* the blend with the first weight written 6 instead of 0.6
blendDecimalSlip(gbp, siteScore) == Round(60 * gbp + 4 * siteScore, 10)

\* the blend with even weights
blend5050(gbp, siteScore) == Round(5 * gbp + 5 * siteScore, 10)

\* Math.round(0.6 * gbp + 0.4 * site): 6g + 4s is even, so never a .5 tie
blend6040(gbp, siteScore) == Round(6 * gbp + 4 * siteScore, 10)

-----------------------------------------------------------------------------
(* Requests, responses and the environment a request can meet              *)

NoPlace == "none"

\* the most candidates a place search of a request returns
MaxFound == 2
ThePlace == "ChIJ-1"

\* websiteUrl as supplied: absent, a parsable URL, or text new URL() rejects
UrlKinds == {"none", "ok", "malformed"}

Trades == {"", "roofing", "hvac install"}

\* businessType values the legacy handler meets (it accepts two of them)
LegacyTypes == {"", "specialty", "maintenance", "roofing"}

MkReq(name, area, url, trade, override, fast, siteOnly, quick) ==
    [businessName |-> name, serviceArea |-> area, websiteUrl |-> url,
     businessType |-> trade, placeId |-> override, fast |-> fast,
     siteOnly |-> siteOnly, quick |-> quick]

NoReq == MkReq(FALSE, FALSE, "none", "", FALSE, FALSE, FALSE, FALSE)

\* Profiles the directory may return for the resolved place
Acme     == MkDetails(46, 120, 3, "open", TRUE, TRUE, FALSE, TRUE)
AcmeSite == MkDetails(46, 120, 3, "open", TRUE, TRUE, TRUE, TRUE)
Starter  == MkDetails(49, 8, 1, "none", FALSE, FALSE, TRUE, FALSE)
Perfect  == MkDetails(50, 120, 25, "closed", FALSE, FALSE, FALSE, TRUE)
Profiles == {EmptyDetails, Acme, AcmeSite, Starter, Perfect}

\* Homepages a reachable site may serve
StrongPage == MkPage(80, 2, 3, 1, FALSE, 40, TRUE, 1)
ThinPage   == MkPage(4, 0, 0, 0, TRUE, 12, FALSE, 3)
Pages == {StrongPage, ThinPage}

\* site: url = the website the handler works with exists; probed/reachable =
\* the probe's verdict; page = the homepage obtained (NoPage if none)
MkSite(url, probed, reachable, page) ==
    [url |-> url, probed |-> probed, reachable |-> reachable, page |-> page]

NoSite == MkSite(FALSE, FALSE, FALSE, NoPage)

\* scoreKind: "number", "null" (finalScore: null) or "absent" (no such field)
MkResp(http, success, status, path, scoreKind, finalScore) ==
    [http |-> http, success |-> success, status |-> status, path |-> path,
     scoreKind |-> scoreKind, finalScore |-> finalScore]

NoResp == MkResp(0, FALSE, "", "", "absent", 0)

ErrResp(http, error) == MkResp(http, FALSE, error, "", "absent", 0)

NoPrev == [server |-> "", key |-> <<FALSE, FALSE, FALSE>>, outcome |-> ""]

\* fn: the scoring function last applied, its arguments and its results
MkFn(op, d, hasTrade, n1, n2, out, out2) ==
    [op |-> op, d |-> d, hasTrade |-> hasTrade, n1 |-> n1, n2 |-> n2,
     out |-> out, out2 |-> out2]

NoFn == MkFn("", NoDetails, FALSE, 0, 0, 0, 0)

-----------------------------------------------------------------------------
(* "paths" server, POST /api/analyze (part_002 lines 400-550)              *)

\* normalizeUrl of part_002: any non-blank text yields a URL string
PathsSiteUrl(r) == r.websiteUrl # "none"

\* PathsSelect with the probe result dropped from the GBP_ONLY test
PathsSelectNoProbe(forceSiteOnly, hasPlace, hasSiteUrl, probeOk) ==
    IF forceSiteOnly THEN <<"SITE_ONLY_FORCED", "SITE_ONLY">>
    ELSE IF ~hasPlace /\ hasSiteUrl THEN <<"SITE_ONLY", "SITE_ONLY">>
    ELSE IF hasPlace /\ ~hasSiteUrl THEN <<"GBP_ONLY", "GBP_ONLY">>
    ELSE IF hasPlace /\ hasSiteUrl THEN <<"BLENDED_60_40", "BLENDED_60_40">>
    ELSE <<"NEEDS_INPUT", "NEEDS_INPUT">>

\* the if / else-if chain that picks status and path
PathsSelect(forceSiteOnly, hasPlace, hasSiteUrl, probeOk) ==
    IF forceSiteOnly THEN <<"SITE_ONLY_FORCED", "SITE_ONLY">>
    ELSE IF ~hasPlace /\ hasSiteUrl THEN <<"SITE_ONLY", "SITE_ONLY">>
    ELSE IF hasPlace /\ (~hasSiteUrl \/ ~probeOk) THEN <<"GBP_ONLY", "GBP_ONLY">>
    ELSE IF hasPlace /\ hasSiteUrl THEN <<"BLENDED_60_40", "BLENDED_60_40">>
    ELSE <<"NEEDS_INPUT", "NEEDS_INPUT">>

\* PathsFinal with the site-only branches blending like the last branch
PathsFinalBlendSiteOnly(status, gbpScore, siteScore) ==
    CASE status = "GBP_ONLY" -> gbpScore
      [] status \in {"SITE_ONLY_FORCED", "SITE_ONLY", "BLENDED_60_40"} ->
             Round(6 * gbpScore + 4 * siteScore, 10)
      [] OTHER -> 0

\* finalScore of the chosen branch
PathsFinal(status, gbpScore, siteScore) ==
    CASE status \in {"SITE_ONLY_FORCED", "SITE_ONLY"} -> siteScore
      [] status = "GBP_ONLY"                          -> gbpScore
      [] status = "BLENDED_60_40"                     -> blend6040(gbpScore, siteScore)
      [] OTHER                                        -> 0

\* siteScore: scored only if siteUrl && (siteProbe.ok || !fast)
PathsSiteScore(r, s) ==
    IF PathsSiteUrl(r) /\ (s.reachable \/ ~r.fast)
    THEN scoreWebsite(extractSiteSignals(s.page), s.reachable)
    ELSE 0

\* The request arrives; the body is destructured.
PathsReceive ==
    /\ pc = "idle"
    /\ \E name \in BOOLEAN, area \in BOOLEAN, url \in UrlKinds, trade \in Trades,
          override \in BOOLEAN, fast \in BOOLEAN, siteOnly \in BOOLEAN :
          req' = MkReq(name, area, url, trade, override, fast, siteOnly, FALSE)
    /\ server' = "paths"
    /\ pc' = "probe"
    /\ placeId' = NoPlace /\ details' = NoDetails /\ site' = NoSite
    /\ resp' = NoResp
    /\ UNCHANGED <<prev, fn, aux>>

\* siteProbe = siteUrl ? await probeSite(siteUrl) : { ok: false };
\* a malformed URL makes fetch throw, which probeSite turns into ok: false
PathsProbeSite ==
    /\ server = "paths" /\ pc = "probe"
    /\ \E ok \in BOOLEAN :
          /\ ok => req.websiteUrl = "ok"
          /\ site' = MkSite(PathsSiteUrl(req), PathsSiteUrl(req), ok, NoPage)
    /\ pc' = "resolve"
    /\ UNCHANGED <<server, req, placeId, details, resp, prev, fn, aux>>

\* Resolve place unless forced site-only: an override placeId is taken as is,
\* else resolvePlace searches (nothing when name and area are both blank)
PathsResolvePlace ==
    /\ server = "paths" /\ pc = "resolve"
    /\ IF req.siteOnly THEN placeId' = NoPlace /\ found' = NoFound
       ELSE IF req.placeId THEN placeId' = ThePlace /\ found' = NoFound
       ELSE IF ~req.businessName /\ ~req.serviceArea
       THEN placeId' = NoPlace /\ found' = NoFound
       ELSE \E n \in 0..MaxFound :
               /\ found' = MkFound(n, FALSE)
               /\ placeId' = IF n > 0 THEN ThePlace ELSE NoPlace
    /\ pc' = "details"
    /\ UNCHANGED <<server, req, details, site, resp, prev, fn, resolver, llm>>

\* Details: maps.placeDetails may throw (500 from the catch), may return no
\* result (details stays null) or a profile
PathsPlaceDetails ==
    /\ server = "paths" /\ pc = "details"
    /\ IF placeId = NoPlace
       THEN /\ details' = NoDetails /\ pc' = "html" /\ resp' = resp
       ELSE \/ /\ \E d \in Profiles \cup {NoDetails} : details' = d
               /\ pc' = "html" /\ resp' = resp
            \/ /\ details' = NoDetails
               /\ resp' = ErrResp(500, "Internal error")
               /\ pc' = "done"
    /\ UNCHANGED <<server, req, placeId, site, prev, fn, aux>>

\* fetchHtml only if the probe succeeded and not fast
PathsFetchHtml ==
    /\ server = "paths" /\ pc = "html"
    /\ IF site.url /\ site.reachable /\ ~req.fast
       THEN \E pg \in Pages \cup {NoPage} : site' = [site EXCEPT !.page = pg]
       ELSE site' = site
    /\ pc' = "score"
    /\ UNCHANGED <<server, req, placeId, details, resp, prev, fn, aux>>

\* GBP score, path / status / final, res.json
PathsRespond ==
    /\ server = "paths" /\ pc = "score"
    /\ LET siteScore == PathsSiteScore(req, site)
           gbp == scoreGBP(details, req.businessType # "")
           sel == PathsSelect(req.siteOnly, placeId # NoPlace, site.url,
                              site.reachable)
       IN resp' = MkResp(200, TRUE, sel[1], sel[2], "number",
                         PathsFinal(sel[1], gbp.gbpScore, siteScore))
    /\ pc' = "done"
    /\ UNCHANGED <<server, req, placeId, details, site, prev, fn, aux>>

-----------------------------------------------------------------------------
(* "v1" server, POST /api/analyze (part_003 lines 1141-1354)               *)

\* normalizeUrl of part_003: null for no input and for text new URL() rejects
V1NormalizeUrl(url) == url = "ok"

\* officialWebsite = normalizeUrl(details.website || websiteUrl)
V1OfficialWebsite(d, r) == d.website \/ V1NormalizeUrl(r.websiteUrl)

\* seo, cta and emergencyWords as left by the optional HTML scoring
V1Seo(s) == IF s.page = NoPage THEN 0 ELSE s.page.seo
V1Cta2(s, placePhone, placeHours) ==
    IF s.page = NoPage THEN 0 ELSE scoreCTA(s.page, placePhone, placeHours)
V1EmergencyWords(s) == s.page # NoPage /\ s.page.emergency

\* siteScore of the SITE_ONLY branch (no place: placePhone, placeHours false)
V1SiteOnlyScore(r, s) ==
    siteScoreV1(pickSiteWeights(r.businessType, V1EmergencyWords(s)),
                V1Seo(s), V1Cta2(s, FALSE, FALSE))

\* siteScore of the scored branch
V1SiteScore(r, d, s) ==
    siteScoreV1(pickSiteWeights(r.businessType,
                                V1EmergencyWords(s) \/ d.hours = "open"),
                V1Seo(s),
                V1Cta2(s, d.phone, d.hours \in {"listed", "open", "closed"}))

\* useBlend = !!(officialWebsite && siteProbe?.checked && siteProbe.reachable)
V1UseBlend(s) == s.url /\ s.probed /\ s.reachable

V1Path(s) == IF V1UseBlend(s) THEN "BLENDED_60_40" ELSE "GBP_ONLY"

\* V1Final blending whether or not the site was reachable
V1FinalAlwaysBlend(useBlend, gbpScore, siteScore) ==
    blend6040(gbpScore, siteScore)

\* finalScore = Math.round(useBlend ? 0.6 * gbp.score + 0.4 * siteScore : gbp.score)
V1Final(useBlend, gbpScore, siteScore) ==
    IF useBlend THEN blend6040(gbpScore, siteScore) ELSE gbpScore

V1SiteOnlyResp(r, s) ==
    MkResp(200, TRUE, "SITE_ONLY", "SITE_ONLY", "number", V1SiteOnlyScore(r, s))

V1ScoredResp(r, d, s) ==
    MkResp(200, TRUE, "OK", V1Path(s), "number",
           V1Final(V1UseBlend(s), computeGbpScore(d, r.businessType # ""),
                   V1SiteScore(r, d, s)))

\* The request arrives; the two 400 validations run before anything else.
V1Receive ==
    /\ pc = "idle"
    /\ \E name \in BOOLEAN, area \in BOOLEAN, url \in UrlKinds, trade \in Trades,
          override \in BOOLEAN, fast \in BOOLEAN :
          /\ req' = MkReq(name, area, url, trade, override, fast, FALSE, FALSE)
          /\ IF ~override /\ (~name \/ ~area)
             THEN /\ resp' = ErrResp(400, "bad_request") /\ pc' = "done"
             ELSE /\ resp' = NoResp /\ pc' = "resolve"
    /\ server' = "v1"
    /\ placeId' = NoPlace /\ details' = NoDetails /\ site' = NoSite
    /\ UNCHANGED <<prev, fn, aux>>

\* Resolve place (override, or results[0] of resolvePlaceRobust), then the
\* two no-place exits: SITE_ONLY needs a probe first, NEEDS_INPUT answers now
V1ResolvePlace ==
    /\ server = "v1" /\ pc = "resolve"
    /\ \E n \in 0..MaxFound :
          /\ req.placeId => n = 0
          /\ found' = IF req.placeId THEN NoFound ELSE MkFound(n, FALSE)
          /\ placeId' = IF req.placeId \/ n > 0 THEN ThePlace ELSE NoPlace
          /\ IF req.placeId \/ n > 0
             THEN /\ pc' = "details" /\ resp' = resp /\ site' = site
             ELSE IF V1NormalizeUrl(req.websiteUrl)
             THEN /\ pc' = "so_probe" /\ resp' = resp
                  /\ site' = MkSite(TRUE, FALSE, FALSE, NoPage)
             ELSE /\ pc' = "done" /\ site' = site
                  /\ resp' = MkResp(200, TRUE, "NEEDS_INPUT", "NO_GBP_NO_SITE",
                                    "null", 0)
    /\ UNCHANGED <<server, req, details, prev, fn, resolver, llm>>

\* SITE_ONLY branch: probeSite, then respond unless the HTML is wanted
V1SiteOnlyProbe ==
    /\ server = "v1" /\ pc = "so_probe"
    /\ \E reachable \in BOOLEAN :
          LET s == MkSite(TRUE, TRUE, reachable, NoPage)
          IN /\ site' = s
             /\ IF ~req.fast /\ reachable
                THEN pc' = "so_html" /\ resp' = resp
                ELSE pc' = "done" /\ resp' = V1SiteOnlyResp(req, s)
    /\ UNCHANGED <<server, req, placeId, details, prev, fn, aux>>

\* SITE_ONLY branch: fetchHtml + scoreCTA / scoreSEO, then respond
V1SiteOnlyHtml ==
    /\ server = "v1" /\ pc = "so_html"
    /\ \E pg \in Pages \cup {NoPage} :
          LET s == [site EXCEPT !.page = pg]
          IN site' = s /\ resp' = V1SiteOnlyResp(req, s)
    /\ pc' = "done"
    /\ UNCHANGED <<server, req, placeId, details, prev, fn, aux>>

\* Place details: a failed call is a 502; an empty profile with no website
\* is NO_SIGNALS; no website at all is scored at once as GBP_ONLY
V1PlaceDetails ==
    /\ server = "v1" /\ pc = "details"
    /\ \/ /\ resp' = ErrResp(502, "place_details_failed")
          /\ pc' = "done" /\ details' = details /\ site' = site
       \/ \E d \in Profiles :
             LET web == V1OfficialWebsite(d, req)
                 s   == MkSite(web, FALSE, FALSE, NoPage)
             IN /\ details' = d
                /\ site' = s
                /\ IF ~gbpSignalsPresent(d) /\ ~web
                   THEN /\ pc' = "done"
                        /\ resp' = MkResp(200, TRUE, "NO_SIGNALS",
                                          "GBP_PRESENT_BUT_EMPTY", "null", 0)
                   ELSE IF web
                   THEN pc' = "probe" /\ resp' = resp
                   ELSE pc' = "done" /\ resp' = V1ScoredResp(req, d, s)
    /\ UNCHANGED <<server, req, placeId, prev, fn, aux>>

\* Site path: probeSite(officialWebsite)
V1ProbeSite ==
    /\ server = "v1" /\ pc = "probe"
    /\ \E reachable \in BOOLEAN :
          LET s == MkSite(TRUE, TRUE, reachable, NoPage)
          IN /\ site' = s
             /\ IF ~req.fast /\ reachable
                THEN pc' = "html" /\ resp' = resp
                ELSE pc' = "done" /\ resp' = V1ScoredResp(req, details, s)
    /\ UNCHANGED <<server, req, placeId, details, prev, fn, aux>>

\* Site path: fetchHtml + scoreCTA / scoreSEO, then the adaptive final score
V1FetchHtml ==
    /\ server = "v1" /\ pc = "html"
    /\ \E pg \in Pages \cup {NoPage} :
          LET s == [site EXCEPT !.page = pg]
          IN site' = s /\ resp' = V1ScoredResp(req, details, s)
    /\ pc' = "done"
    /\ UNCHANGED <<server, req, placeId, details, prev, fn, aux>>

-----------------------------------------------------------------------------
(* "legacy" server, analyzeHandler (part_004 lines 251-478)                *)

\* Gemini's scores object once parsed: four numbers, each passed to clampPct
MkScores(pain, cta, web, seo) ==
    [painPointResonance |-> pain, ctaStrength |-> cta, websiteHealth |-> web,
     onPageSEO |-> seo]

\* geminiAnalysis.scores = {} (parse failure or no JSON): clampPct gives 0
NoScores == MkScores(0, 0, 0, 0)

GeminiScores == {NoScores, MkScores(80, 70, 60, 90), MkScores(100, 100, 100, 100)}

\* clampPct(n) for an integer n
clampPct(n) == Max(0, Min(100, n))

\* calculateFinalScore(googleData, geminiScores, businessType).finalScore
calculateFinalScore(rating10, reviewCount, g, businessType) ==
    LET rating == clampPct(Round(rating10 * 100, 50))
        review == clampPct(Round(Min(reviewCount, 150) * 100, 150))
        pain   == clampPct(g.painPointResonance)
        cta    == clampPct(g.ctaStrength)
        web    == clampPct(g.websiteHealth)
        seo    == clampPct(g.onPageSEO)
        final  == IF businessType = "specialty"
                  THEN Round(20 * rating + 15 * review + 20 * pain + 5 * cta
                             + 15 * web + 15 * seo, 100)
                  ELSE Round(15 * rating + 15 * review + 5 * pain + 25 * cta
                             + 15 * web + 15 * seo, 100)
    IN Min(IF final = 0 THEN 70 ELSE final, 99)

\* rating: userDetails.rating || 4.0
LegacyRating10(d) == IF d.rating10 = 0 THEN 40 ELSE d.rating10

\* the "safe canned result": quick mode, no search results, and the catch
CannedResp == MkResp(200, TRUE, "", "", "number", 70)

\* The request arrives: quick mode, the three validations, requireEnv.
LegacyReceive ==
    /\ pc = "idle"
    /\ \E name \in BOOLEAN, area \in BOOLEAN, url \in UrlKinds,
          type \in LegacyTypes, quick \in BOOLEAN, mapsKey \in BOOLEAN,
          llmKey \in BOOLEAN :
          /\ req' = MkReq(name, area, url, type, FALSE, FALSE, FALSE, quick)
          /\ llm' = MkLlm(mapsKey, llmKey, "none",
                          IF quick THEN "value" ELSE "none")
          /\ IF quick
             THEN resp' = CannedResp /\ pc' = "done"
             ELSE IF ~name \/ url = "none" \/ type = ""
             THEN resp' = ErrResp(400, "Missing required fields.") /\ pc' = "done"
             ELSE IF url # "ok"
             THEN resp' = ErrResp(400, "Invalid websiteUrl") /\ pc' = "done"
             ELSE IF type \notin {"specialty", "maintenance"}
             THEN resp' = ErrResp(400, "Invalid businessType") /\ pc' = "done"
             ELSE IF ~mapsKey \/ ~llmKey
             THEN resp' = ErrResp(500, "Server configuration missing")
                  /\ pc' = "done"
             ELSE resp' = NoResp /\ pc' = "search"
    /\ server' = "legacy"
    /\ placeId' = NoPlace /\ details' = NoDetails /\ site' = NoSite
    /\ UNCHANGED <<prev, fn, resolver, found>>

\* textSearch on the primary query, then on the fallback query if empty; a
\* throw lands in the catch, and so does nothing found: both answer canned
LegacySearch ==
    /\ server = "legacy" /\ pc = "search"
    /\ \/ \E n \in 1..MaxFound :
             /\ found' = MkFound(n, FALSE)
             /\ placeId' = ThePlace /\ pc' = "details" /\ resp' = resp
       \/ \E outcome \in {"throw", "empty"} :
             /\ found' = IF outcome = "empty" THEN MkFound(0, FALSE)
                          ELSE NoFound
             /\ placeId' = NoPlace /\ pc' = "done" /\ resp' = CannedResp
    /\ UNCHANGED <<server, req, details, site, prev, fn, resolver, llm>>

\* placeDetails for results[0]; a throw lands in the catch.  (The competitor
\* lookup that follows has its own try/catch and feeds no score.)
LegacyDetails ==
    /\ server = "legacy" /\ pc = "details"
    /\ \/ /\ \E d \in Profiles : details' = d
          /\ pc' = "gemini" /\ resp' = resp
       \/ /\ details' = details /\ pc' = "done" /\ resp' = CannedResp
    /\ UNCHANGED <<server, req, placeId, site, prev, fn, aux>>

\* Gemini under withTimeout (awaited outside any inner try: a rejection lands
\* in the outer catch), JSON parse (a failure keeps scores {}), then
\* calculateFinalScore and the 200 response
LegacyGemini ==
    /\ server = "legacy" /\ pc = "gemini"
    /\ \/ /\ resp' = CannedResp
          /\ llm' = [llm EXCEPT !.call = "failed", !.reported = "value"]
       \/ \E g \in GeminiScores :
             /\ resp' = MkResp(200, TRUE, "", "", "number",
                               calculateFinalScore(LegacyRating10(details),
                                                   details.reviews, g,
                                                   req.businessType))
             /\ llm' = [llm EXCEPT !.call = "ok",
                                   !.reported = IF g = NoScores THEN "zero"
                                                ELSE "value"]
    /\ pc' = "done"
    /\ UNCHANGED <<server, req, placeId, details, site, prev, fn, resolver,
                   found>>

-----------------------------------------------------------------------------
(* "clarify" server, analyzeHandler (part_002 lines 1747-2057)             *)

\* clampPct(Math.log10(Math.max(rc, 1)) * 25) at the review counts the model
\* draws: Math.round(25 * log10(rc))
LogReviewScore(rc) ==
    CASE rc <= 1  -> 0
      [] rc = 4   -> 15
      [] rc = 5   -> 17
      [] rc = 8   -> 23
      [] rc = 19  -> 32
      [] rc = 20  -> 33
      [] rc = 45  -> 41
      [] rc \in {49, 50}   -> 42
      [] rc \in {99, 100}  -> 50
      [] rc = 120 -> 52
      [] rc \in {249, 250} -> 60

\* calculateFinalScore of part_002: rating and log review volume, plus the
\* four Gemini scores when Gemini returned any; weights renormalised over the
\* metrics present; then Math.min(final || 70, 99)
calculateFinalScoreLog(rating10, reviewCount, g, hasGemini, businessType) ==
    LET rating == clampPct(Round(rating10 * 100, 50))
        review == LogReviewScore(reviewCount)
        w      == IF businessType = "maintenance"
                  THEN <<20, 25, 10, 15, 15, 15>>
                  ELSE <<25, 25, 20, 10, 10, 10>>
        base   == w[1] * rating + w[2] * review
        extra  == w[3] * clampPct(g.painPointResonance)
                  + w[4] * clampPct(g.ctaStrength)
                  + w[5] * clampPct(g.websiteHealth)
                  + w[6] * clampPct(g.onPageSEO)
        final  == IF hasGemini
                  THEN Round(base + extra, 100)
                  ELSE Round(base, w[1] + w[2])
    IN Min(IF final = 0 THEN 70 ELSE final, 99)

\* 200 with success: false and the candidates to choose from
ChooseResp == MkResp(200, FALSE, "candidates", "", "absent", 0)

\* The request arrives: quick mode, the validations, requireEnv.  Text that
\* is no URL is retried with https:// in front, which may or may not parse.
ClarifyReceive ==
    /\ pc = "idle"
    /\ \E name \in BOOLEAN, area \in BOOLEAN, url \in UrlKinds,
          type \in LegacyTypes, selected \in BOOLEAN, quick \in BOOLEAN,
          mapsKey \in BOOLEAN, llmKey \in BOOLEAN, fixable \in BOOLEAN :
          /\ req' = MkReq(name, area, url, type, selected, FALSE, FALSE, quick)
          /\ llm' = MkLlm(mapsKey, llmKey, "none",
                          IF quick THEN "value" ELSE "none")
          /\ IF quick
             THEN resp' = CannedResp /\ pc' = "done"
             ELSE IF ~name \/ url = "none" \/ type = ""
             THEN resp' = ErrResp(400, "Please complete all required fields.")
                  /\ pc' = "done"
             ELSE IF url = "malformed" /\ ~fixable
             THEN resp' = ErrResp(400, "Invalid website URL.") /\ pc' = "done"
             ELSE IF type \notin {"specialty", "maintenance"}
             THEN resp' = ErrResp(400, "Invalid businessType") /\ pc' = "done"
             ELSE IF ~mapsKey
             THEN resp' = ErrResp(500, "Server configuration missing")
                  /\ pc' = "done"
             ELSE resp' = NoResp
                  /\ pc' = IF selected THEN "selected" ELSE "candidates"
    /\ server' = "clarify"
    /\ placeId' = NoPlace /\ details' = NoDetails /\ site' = NoSite
    /\ UNCHANGED <<prev, fn, resolver, found>>

\* selectedPlaceId: fetchPlaceDetails gives the profile, or null (then the
\* normal resolution flow runs)
ClarifySelected ==
    /\ server = "clarify" /\ pc = "selected"
    /\ \/ \E d \in Profiles :
             details' = d /\ placeId' = ThePlace /\ pc' = "gemini"
       \/ details' = details /\ placeId' = placeId /\ pc' = "candidates"
    /\ UNCHANGED <<server, req, site, resp, prev, fn, aux>>

\* resolvePlaceCandidates, enrichment with details, and the choice: none is
\* a 404, several without an exact domain match are handed back to the
\* caller, otherwise one is picked; a throw is the catch's 500
ClarifyCandidates ==
    /\ server = "clarify" /\ pc = "candidates"
    /\ \/ /\ resp' = ErrResp(500, "Analyze failed")
          /\ pc' = "done" /\ details' = details /\ placeId' = placeId
          /\ found' = found
       \/ \E n \in 0..MaxFound, exactDomain \in BOOLEAN :
             /\ n = 0 => ~exactDomain
             /\ found' = MkFound(n, exactDomain)
             /\ IF n = 0
                THEN /\ resp' = ErrResp(404, "No Google Business Profile found")
                     /\ pc' = "done" /\ details' = details
                     /\ placeId' = placeId
                ELSE IF ~exactDomain /\ n > 1
                THEN /\ resp' = ChooseResp
                     /\ pc' = "done" /\ details' = details
                     /\ placeId' = placeId
                ELSE /\ \E d \in Profiles : details' = d
                     /\ placeId' = ThePlace /\ pc' = "gemini" /\ resp' = resp
    /\ UNCHANGED <<server, req, site, prev, fn, resolver, llm>>

\* Gemini is optional (no model, timeout, no JSON: scores stay {}), then
\* calculateFinalScore and the 200 response
ClarifyGemini ==
    /\ server = "clarify" /\ pc = "gemini"
    /\ \E g \in GeminiScores, hasGemini \in BOOLEAN,
          call \in {"none", "failed", "ok"} :
          /\ call = "none" <=> ~llm.key
          /\ call # "ok" => ~hasGemini
          /\ ~hasGemini => g = NoScores
          /\ resp' = MkResp(200, TRUE, "", "", "number",
                            calculateFinalScoreLog(details.rating10,
                                                   details.reviews, g,
                                                   hasGemini,
                                                   req.businessType))
          /\ llm' = [llm EXCEPT !.call = call,
                                !.reported = IF hasGemini THEN "value"
                                             ELSE "zero"]
    /\ pc' = "done"
    /\ UNCHANGED <<server, req, placeId, details, site, prev, fn, resolver,
                   found>>

-----------------------------------------------------------------------------
(* Requests one after another                                              *)

\* The path-selection facts of the request just answered
PlaceResolved == placeId # NoPlace
SiteReachable == site.reachable
ForcedSiteOnly == req.siteOnly
WebsiteKnown == site.url

\* SITE_ONLY and SITE_ONLY_FORCED are one outcome class
Outcome(r) ==
    IF r.status \in {"SITE_ONLY", "SITE_ONLY_FORCED"} THEN "SITE_ONLY"
    ELSE IF r.status = "NEEDS_INPUT" THEN "NEEDS_INPUT"
    ELSE IF r.path \in {"GBP_ONLY", "BLENDED_60_40"} THEN r.path
    ELSE "NONE"

PathOutcomes == {"NEEDS_INPUT", "SITE_ONLY", "GBP_ONLY", "BLENDED_60_40"}

\* The response is out; the handler's locals are gone.
Finish ==
    /\ pc = "done"
    /\ pc' = "idle"
    /\ server' = "" /\ req' = NoReq /\ placeId' = NoPlace
    /\ details' = NoDetails /\ site' = NoSite /\ resp' = NoResp
    /\ found' = NoFound /\ llm' = NoLlm
    /\ UNCHANGED <<prev, fn, resolver>>

\* As Finish, keeping a note of what the request's three booleans led to
FinishNoted ==
    /\ pc = "done"
    /\ Outcome(resp) \in PathOutcomes
    /\ pc' = "idle"
    /\ prev' = [server |-> server,
                key |-> <<PlaceResolved, SiteReachable, ForcedSiteOnly>>,
                outcome |-> Outcome(resp)]
    /\ server' = "" /\ req' = NoReq /\ placeId' = NoPlace
    /\ details' = NoDetails /\ site' = NoSite /\ resp' = NoResp
    /\ found' = NoFound /\ llm' = NoLlm
    /\ UNCHANGED <<fn, resolver>>

Init ==
    /\ server = "" /\ req = NoReq /\ pc = "idle"
    /\ placeId = NoPlace /\ details = NoDetails /\ site = NoSite
    /\ resp = NoResp /\ prev = NoPrev /\ fn = NoFn
    /\ AuxIdle

Next ==
    \/ PathsReceive \/ PathsProbeSite \/ PathsResolvePlace
    \/ PathsPlaceDetails \/ PathsFetchHtml \/ PathsRespond
    \/ V1Receive \/ V1ResolvePlace \/ V1SiteOnlyProbe \/ V1SiteOnlyHtml
    \/ V1PlaceDetails \/ V1ProbeSite \/ V1FetchHtml
    \/ LegacyReceive \/ LegacySearch \/ LegacyDetails \/ LegacyGemini
    \/ ClarifyReceive \/ ClarifySelected \/ ClarifyCandidates \/ ClarifyGemini
    \/ Finish

Spec == Init /\ [][Next]_vars

\* The same program, with the history note taken between requests
NextNoted == Next \/ FinishNoted

SpecNoted == Init /\ [][NextNoted]_vars

-----------------------------------------------------------------------------
(* The scoring functions on their own: arguments drawn, function applied    *)

\* review counts run up to MaxReviews (past the last bucket edge, 250)
MaxReviews == 260

ReviewSamples == {0, 1, 4, 5, 8, 19, 20, 45, 49, 50, 99, 100, 120, 249, 250}

\* place details the directory can return: rating 0.0 .. 5.0
ScoreInputs ==
    { MkDetails(r10, rev, ph, hrs, m, m, FALSE, FALSE) :
        r10 \in 0..50, rev \in ReviewSamples, ph \in {0, 1, 25},
        hrs \in HoursKinds, m \in BOOLEAN }

\* the arguments are drawn first: a place details record with a trade flag,
\* or a pair of review counts
InitScoring ==
    /\ server = "" /\ req = NoReq /\ pc = "idle"
    /\ placeId = NoPlace /\ details = NoDetails /\ site = NoSite
    /\ resp = NoResp /\ prev = NoPrev
    /\ AuxIdle
    /\ \/ \E d \in ScoreInputs, hasTrade \in BOOLEAN :
             fn = MkFn("details", d, hasTrade, 0, 0, 0, 0)
       \/ \E n1 \in 0..MaxReviews, n2 \in 0..MaxReviews :
             fn = MkFn("counts", NoDetails, FALSE, n1, n2, 0, 0)

ApplyComputeGbpScore ==
    /\ fn.op = "details"
    /\ fn' = [fn EXCEPT !.op = "computeGbpScore",
                        !.out = computeGbpScore(fn.d, fn.hasTrade)]
    /\ UNCHANGED <<server, req, pc, placeId, details, site, resp, prev, aux>>

ApplyScoreGBP ==
    /\ fn.op = "details"
    /\ fn' = [fn EXCEPT !.op = "scoreGBP",
                        !.out = scoreGBP(fn.d, fn.hasTrade).gbpScore]
    /\ UNCHANGED <<server, req, pc, placeId, details, site, resp, prev, aux>>

ApplyScoreReviewVolume ==
    /\ fn.op = "counts"
    /\ fn' = [fn EXCEPT !.op = "scoreReviewVolume",
                        !.out = scoreReviewVolume(fn.n1),
                        !.out2 = scoreReviewVolume(fn.n2)]
    /\ UNCHANGED <<server, req, pc, placeId, details, site, resp, prev, aux>>

ApplyVolumePctFromReviews ==
    /\ fn.op = "counts"
    /\ fn' = [fn EXCEPT !.op = "volumePctFromReviews",
                        !.out = volumePctFromReviews(fn.n1),
                        !.out2 = volumePctFromReviews(fn.n2)]
    /\ UNCHANGED <<server, req, pc, placeId, details, site, resp, prev, aux>>

NextScoring ==
    \/ ApplyComputeGbpScore \/ ApplyScoreGBP
    \/ ApplyScoreReviewVolume \/ ApplyVolumePctFromReviews

SpecScoring == InitScoring /\ [][NextScoring]_vars

-----------------------------------------------------------------------------
(* Path selection (C1)                                                     *)

DecisionTable(forced, place, web, reachable) ==
    IF forced THEN "SITE_ONLY"
    ELSE IF ~place THEN (IF web THEN "SITE_ONLY" ELSE "NEEDS_INPUT")
    ELSE IF web /\ reachable THEN "BLENDED_60_40"
    ELSE "GBP_ONLY"

-----------------------------------------------------------------------------
(* Range of finalScore (C2)                                                *)

-----------------------------------------------------------------------------
(* Fallback constants and NEEDS_INPUT (C3, C4)                             *)

\* C3: when the lookup gave no place and the handler has no website to score
\* (not the quick mode that skips the lookup), a response that reports
\* success reports NEEDS_INPUT and carries no number as finalScore.
C3_NoFabricatedScore ==
    (/\ pc = "done" /\ resp.success /\ ~req.quick
     /\ ~PlaceResolved /\ ~WebsiteKnown)
    => (resp.status = "NEEDS_INPUT" /\ resp.scoreKind # "number")

\* C4: businessName given, serviceArea omitted, no website, no placeId, and
\* the search ran and found nothing: the 200 response has status NEEDS_INPUT
\* and no number as finalScore.
C4_NeedsInputNoScore ==
    (/\ pc = "done" /\ resp.http = 200 /\ ~req.quick
     /\ req.businessName /\ ~req.serviceArea /\ req.websiteUrl = "none"
     /\ ~req.placeId /\ ~req.siteOnly
     /\ ~PlaceResolved)
    => (resp.status = "NEEDS_INPUT" /\ resp.scoreKind # "number")

-----------------------------------------------------------------------------
(* The scored paths (C5, C6, C7)                                           *)

\* The sub-scores the answering handler computed from its locals
GbpScoreOf ==
    IF server = "paths" THEN scoreGBP(details, req.businessType # "").gbpScore
    ELSE computeGbpScore(details, req.businessType # "")

SiteScoreOf ==
    IF server = "paths" THEN PathsSiteScore(req, site)
    ELSE V1SiteScore(req, details, site)

SiteOnlyScoreOf ==
    IF server = "paths" THEN PathsSiteScore(req, site)
    ELSE V1SiteOnlyScore(req, site)

\* C5: a scored response for a resolved place with a reachable website (and
\* site-only not forced) has path BLENDED_60_40 and
\* finalScore = round(0.6 * GBP score + 0.4 * site score).
C5_Blended6040 ==
    (/\ pc = "done" /\ resp.success
     /\ PlaceResolved /\ SiteReachable /\ ~ForcedSiteOnly)
    => /\ resp.path = "BLENDED_60_40"
       /\ resp.scoreKind = "number"
       /\ resp.finalScore = Round(6 * GbpScoreOf + 4 * SiteScoreOf, 10)

\* A listed, reachable site with a strong homepage: 94 and 75 blend to 86
C5_Witness ==
    /\ pc = "done" /\ server = "v1" /\ resp.success
    /\ PlaceResolved /\ SiteReachable
    /\ details = AcmeSite /\ site.page = StrongPage
    /\ resp.path = "BLENDED_60_40"
    /\ resp.finalScore # GbpScoreOf /\ resp.finalScore # SiteScoreOf

-----------------------------------------------------------------------------
(* The GBP sub-score and the review-volume step function (C8, C9, C10)     *)

\* The step table as the claims write it, as 100 * norm
ClaimVolumeNorm(count) ==
    CASE count = 0                   -> 0
      [] count \in 1..4              -> 25
      [] count \in 5..19             -> 40
      [] count \in 20..49            -> 60
      [] count \in 50..99            -> 80
      [] count \in 100..249          -> 90
      [] OTHER                       -> 100

\* The bucket of the step table a review count falls in
ClaimBucket(count) ==
    CASE count = 0          -> 0
      [] count \in 1..4     -> 1
      [] count \in 5..19    -> 2
      [] count \in 20..49   -> 3
      [] count \in 50..99   -> 4
      [] count \in 100..249 -> 5
      [] OTHER              -> 6

\* 100 * the claimed GBP sub-score:
\* 100 * 100 * (0.40 ratingNorm + 0.25 volumeNorm + 0.15 categoryNorm
\*              + 0.10 photosNorm + 0.10 hoursNorm)
ClaimGbpTimes100(d, hasTrade) ==
    80 * clamp(d.rating10, 0, 50)
    + 25 * ClaimVolumeNorm(d.reviews)
    + 15 * (IF hasTrade THEN (IF d.inTypes THEN 100 ELSE 60) ELSE 80)
    + 1000 * (IF d.photos > 0 THEN 1 ELSE 0)
    + 1000 * (IF d.hours # "none" THEN 1 ELSE 0)

\* C8: for any place details, each GBP scoring function returns the claimed
\* weighted sum, rounded to the nearest integer.
C8_GbpFormula ==
    fn.op \in {"computeGbpScore", "scoreGBP"}
    => /\ 100 * fn.out - ClaimGbpTimes100(fn.d, fn.hasTrade) <= 50
       /\ ClaimGbpTimes100(fn.d, fn.hasTrade) - 100 * fn.out <= 50

\* The Acme Roofing request of the example, answered by the v1 handler for a
\* profile that lists no website
AcmeAnswered ==
    /\ pc = "done" /\ server = "v1" /\ resp.success
    /\ req.businessName /\ req.serviceArea /\ req.websiteUrl = "none"
    /\ req.businessType = "roofing"
    /\ PlaceResolved /\ details = Acme

C10_ReviewVolumeSteps ==
    fn.op \in {"scoreReviewVolume", "volumePctFromReviews"}
    => /\ fn.out = ClaimVolumeNorm(fn.n1)
       /\ fn.out2 = ClaimVolumeNorm(fn.n2)
       /\ fn.n1 <= fn.n2 => fn.out <= fn.out2
       /\ ClaimBucket(fn.n1) = ClaimBucket(fn.n2) => fn.out = fn.out2


\* ---------------------------------------------------------------------
\* resolvePlace (part_002): Text Search over the name variants, a TTL
\* cache keyed by the joined queries, and the ranking of the candidates.
\* Strings are sequences of lower-case tokens; Joined length counts the
\* single blanks between the tokens.
\* ---------------------------------------------------------------------

TokLen(t) ==
    CASE t = "acme" -> 4 [] t = "roofing" -> 7 [] t = "llc" -> 3
      [] t = "co" -> 2 [] t = "nj" -> 2 [] t = "the" -> 3 [] OTHER -> 1

RECURSIVE StrLen(_)
StrLen(s) ==
    IF s = <<>> THEN 0
    ELSE IF Len(s) = 1 THEN TokLen(s[1])
    ELSE TokLen(s[1]) + 1 + StrLen(Tail(s))

Front(s) == SubSeq(s, 1, Len(s) - 1)

Tokens(s) == {s[i] : i \in 1..Len(s)}

\* cleanTail: a leading article goes when more text follows it
cleanTail(s) ==
    IF Len(s) > 1 /\ s[1] \in {"the", "a"} THEN Tail(s) ELSE s

IsSuffixToken(t) == t \in {"inc", "llc", "ltd"}

\* the four strings expandNameVariants adds to its Set, in insertion order
VariantList(base) ==
    << base,
       cleanTail(IF IsSuffixToken(base[Len(base)]) THEN Front(base) ELSE base),
       cleanTail(SelectSeq(base, LAMBDA t : ~IsSuffixToken(t))),
       cleanTail(IF Len(base) > 1 /\ base[Len(base)] \in {"co", "company"}
                 THEN Front(base) ELSE base) >>

\* Array.from(set).filter(Boolean): first occurrences, blanks dropped
RECURSIVE Dedup(_, _)
Dedup(l, seen) ==
    IF l = <<>> THEN <<>>
    ELSE IF l[1] = <<>> \/ l[1] \in seen THEN Dedup(Tail(l), seen)
    ELSE <<l[1]>> \o Dedup(Tail(l), seen \cup {l[1]})

expandNameVariants(name) ==
    LET base == cleanTail(name)
    IN  IF base = <<>> THEN <<>> ELSE Dedup(VariantList(base), {})

\* [q, bt, area].filter(Boolean).join(" ") for every variant
Queries(name, bt, area) ==
    LET variants == expandNameVariants(name)
        qs == IF variants # <<>> THEN variants
              ELSE <<IF name # <<>> THEN name ELSE bt>>
    IN  [i \in 1..Len(qs) |-> qs[i] \o bt \o area]

\* overlap * 2 + lenScore as the fraction <<numerator, denominator>>
nameSimilarity(a, b) ==
    IF a = <<>> \/ b = <<>> THEN <<0, 1>>
    ELSE LET overlap == Cardinality(Tokens(a) \cap Tokens(b))
             mx == Max(StrLen(a), StrLen(b))
             mn == Min(StrLen(a), StrLen(b))
         IN  <<2 * overlap * mx + mn, mx>>

SimLess(x, y) == x[1] * y[2] < y[1] * x[2]

\* _strength = rating * 20 + Math.min(100, user_ratings_total)
Strength(c) == 2 * c.rating10 + Min(100, c.reviews)


\* the comparator of scored.sort: a is placed before b
RanksBeforeSimOnly(name, a, b) ==
    SimLess(nameSimilarity(name, b.name), nameSimilarity(name, a.name))

RanksBefore(name, a, b) ==
    LET sa == nameSimilarity(name, a.name)
        sb == nameSimilarity(name, b.name)
    IN  \/ SimLess(sb, sa)
        \/ /\ sa[1] * sb[2] = sb[1] * sa[2]
           /\ \/ Strength(a) > Strength(b)
              \/ Strength(a) = Strength(b) /\ a.reviews > b.reviews

\* Array.prototype.sort is stable: equal elements keep their order
RECURSIVE InsertRanked(_, _, _)
InsertRanked(name, c, sorted) ==
    IF sorted = <<>> THEN <<c>>
    ELSE IF RanksBefore(name, c, sorted[1]) THEN <<c>> \o sorted
    ELSE <<sorted[1]>> \o InsertRanked(name, c, Tail(sorted))

RECURSIVE SortRanked(_, _)
SortRanked(name, cands) ==
    IF cands = <<>> THEN <<>>
    ELSE InsertRanked(name, cands[Len(cands)],
                      SortRanked(name, Front(cands)))

\* the directory's answer to one Text Search query: the places whose name
\* shares a word with the query, in the directory's order
textSearch(dir, q) ==
    SelectSeq(dir, LAMBDA c : Tokens(c.name) \cap Tokens(q) # {})

RECURSIVE Gather(_, _, _)
Gather(dir, qs, failed) ==
    IF qs = <<>> THEN <<>>
    ELSE Gather(dir, Front(qs), failed)
         \o (IF Len(qs) \in failed THEN <<>> ELSE textSearch(dir, qs[Len(qs)]))

MkOut(ok, status, id, cands) ==
    [ok |-> ok, status |-> status, placeId |-> id, candidates |-> cands]

\* the value resolvePlace computes from the gathered candidates
Ranked(name, cands) ==
    IF cands = <<>> THEN MkOut(FALSE, "AMBIGUOUS", NoPlace, <<>>)
    ELSE LET scored == SortRanked(name, cands)
         IN  MkOut(TRUE, "", scored[1].placeId, scored)

cacheHit(cache, key) == {e \in cache : e.key = key}

cacheGet(cache, key) == CHOOSE e \in cacheHit(cache, key) : TRUE

\* an entry also remembers the candidate list its value was ranked from
cacheSet(cache, key, val, from) ==
    (cache \ cacheHit(cache, key))
        \cup {[key |-> key, val |-> val, from |-> from]}


\* the places a directory can hold
PlaceNames == {<<"acme", "co">>, <<"acme", "llc">>}
PlaceReviews == {5, 200}
PlaceRatings == {10, 50}
MaxPlaces == 2
MaxCached == 2

MkPlace(id, name, rating10, reviews) ==
    [placeId |-> id, name |-> name, rating10 |-> rating10,
     reviews |-> reviews]

PlaceIds == <<"ChIJ-1", "ChIJ-2", "ChIJ-3">>

Directories ==
    UNION {
      { [i \in 1..n |-> MkPlace(PlaceIds[i], nm[i], rt[i], rv[i])] :
          nm \in [1..n -> PlaceNames], rt \in [1..n -> PlaceRatings],
          rv \in [1..n -> PlaceReviews] } : n \in 0..MaxPlaces }

\* what callers pass to resolvePlace, already trimmed
ReqNames == {<<>>, <<"acme">>, <<"acme", "roofing">>, <<"the", "acme", "llc">>}
ReqTypes == {<<>>, <<"roofing">>}
ReqAreas == {<<>>, <<"nj">>}

\* a resolvePlace call: its arguments, whether it returned the cached value,
\* its result and the candidate list the result was ranked from
MkCall(phase, name, bt, area, bypass, hit, out, seen) ==
    [phase |-> phase, name |-> name, bt |-> bt, area |-> area,
     bypass |-> bypass, hit |-> hit, out |-> out, seen |-> seen]

NoOut == MkOut(FALSE, "", NoPlace, <<>>)

CandSet(cands) == {cands[i] : i \in 1..Len(cands)}

\* resolvePlace up to its first await: the input guard and the cache read
ResolveBegin(names) ==
    /\ rs = NoCall
    /\ \E name \in names, bt \in ReqTypes, area \in ReqAreas,
          bypass \in BOOLEAN :
         LET key == Queries(name, bt, area)
         IN  IF name = <<>> /\ area = <<>>
             THEN rs' = MkCall("done", name, bt, area, bypass, FALSE,
                               MkOut(FALSE, "NEEDS_INPUT", NoPlace, <<>>), <<>>)
             ELSE IF ~bypass /\ cacheHit(placeCache, key) # {}
             THEN LET cached == cacheGet(placeCache, key)
                  IN  rs' = MkCall("done", name, bt, area, bypass, TRUE,
                                   cached.val, cached.from)
             ELSE /\ \/ cacheHit(placeCache, key) # {}
                     \/ Cardinality(placeCache) < MaxCached
                  /\ rs' = MkCall("search", name, bt, area, bypass, FALSE,
                                   NoOut, <<>>)
    /\ UNCHANGED <<main, directory, placeCache, rprev>>

\* the Text Search loop (a query that throws is skipped), the ranking and
\* the cache write
ResolveSearch ==
    /\ rs.phase = "search"
    /\ LET key == Queries(rs.name, rs.bt, rs.area)
       IN  \E failed \in SUBSET (1..Len(key)) :
             LET cands == Gather(directory, key, failed)
                 out == Ranked(rs.name, cands)
             IN  /\ placeCache' = cacheSet(placeCache, key, out, cands)
                 /\ rs' = [rs EXCEPT !.phase = "done", !.out = out,
                                     !.seen = cands]
    /\ UNCHANGED <<main, directory, rprev>>

\* the caller has the result
ResolveReturn ==
    /\ rs.phase = "done"
    /\ rs' = NoCall
    /\ UNCHANGED <<main, directory, placeCache, rprev>>

\* the same, the call being remembered for comparison with the later ones
ResolveNoted ==
    /\ rs.phase = "done"
    /\ rprev = NoCall
    /\ rprev' = rs
    /\ rs' = NoCall
    /\ UNCHANGED <<main, directory, placeCache>>

\* three hours pass for an entry: cacheGet deletes it and returns null
CacheExpire ==
    /\ rs = NoCall
    /\ \E e \in placeCache : placeCache' = placeCache \ {e}
    /\ UNCHANGED <<main, directory, rs, rprev>>

InitResolve ==
    /\ server = "" /\ req = NoReq /\ pc = "idle"
    /\ placeId = NoPlace /\ details = NoDetails /\ site = NoSite
    /\ resp = NoResp /\ prev = NoPrev /\ fn = NoFn
    /\ directory \in Directories
    /\ placeCache = {} /\ rs = NoCall /\ rprev = NoCall
    /\ found = NoFound /\ llm = NoLlm

NextResolve ==
    ResolveBegin(ReqNames) \/ ResolveSearch \/ ResolveReturn \/ CacheExpire

SpecResolve == InitResolve /\ [][NextResolve]_vars

NotedDirectories ==
    { d \in Directories :
        /\ Len(d) = MaxPlaces
        /\ d[1].name # d[2].name
        /\ \A i \in 1..MaxPlaces : d[i].rating10 = 50 /\ d[i].reviews = 200 }

InitResolveNoted ==
    /\ InitResolve
    /\ directory \in NotedDirectories

\* the names asked for while one call is remembered
NotedNames == {<<"acme">>, <<"acme", "roofing">>}

NextResolveNoted ==
    \/ ResolveBegin(NotedNames) \/ ResolveSearch \/ ResolveReturn
    \/ ResolveNoted \/ CacheExpire

SpecResolveNoted == InitResolveNoted /\ [][NextResolveNoted]_vars


\* C11: disambiguation is deterministic: two resolvePlace calls with the
\* same name, business type and area whose results were ranked from the
\* same candidate list return the same selected place and the same ranked
\* candidate list, whatever calls ran in between.
C11_SameInputSameSelection ==
    (/\ rs.phase = "done" /\ rprev # NoCall
     /\ rs.name = rprev.name /\ rs.bt = rprev.bt /\ rs.area = rprev.area
     /\ rs.seen = rprev.seen)
    => (/\ rs.out.placeId = rprev.out.placeId
        /\ rs.out.candidates = rprev.out.candidates)

\* two similarities within a tenth of each other
NearIdentical(x, y) ==
    LET d == x[1] * y[2] - y[1] * x[2]
    IN  10 * (IF d < 0 THEN -d ELSE d) <= x[2] * y[2]

SameSimilarity(x, y) == x[1] * y[2] = y[1] * x[2]

\* the result in rs was ranked by this call from two candidates, one with
\* 200 reviews and one with 5
RankedTwo(a, b) ==
    /\ rs.phase = "done" /\ ~rs.hit /\ rs.out.ok
    /\ a \in CandSet(rs.seen) /\ b \in CandSet(rs.seen)
    /\ a.reviews = 200 /\ b.reviews = 5

Winner == rs.out.candidates[1]

MkUrl(scheme, www, host, tail) ==
    [scheme |-> scheme, www |-> www, host |-> host, tail |-> tail]

NoUrl == MkUrl("", FALSE, "", "")

toLowerCase(h) ==
    CASE h = "ACME.com" -> "acme.com" [] h = "Other.com" -> "other.com"
      [] OTHER -> h

\* new URL(u).hostname: lower case, without port, path or query
Hostname(u) == toLowerCase(u.host)

\* normalizeHost: lower case, the scheme and a leading www. removed, and
\* everything from the first slash on; a query or port written directly
\* after the host stays
normalizeHost(u) ==
    [host |-> toLowerCase(u.host),
     rest |-> IF u.tail = "" \/ u.tail \in {"/", "/contact"} THEN ""
              ELSE u.tail]

\* normDomain (src/api/server.js): the URL's hostname without www.
normDomain(u) == [host |-> Hostname(u), rest |-> ""]

\* what the handlers do with the candidate list
MkChoice(kind, index, shown) == [kind |-> kind, index |-> index, shown |-> shown]

NoChoice == MkChoice("", 0, 0)

\* candidates.slice(0, 5) are the ones whose details are fetched
EnrichLimit == 5

enrich(cands) == SubSeq(cands, 1, Min(EnrichLimit, Len(cands)))

\* Array.prototype.find: the first index with a matching website, or 0
FindIndex(cands, Match(_)) ==
    IF \E i \in 1..Len(cands) : Match(cands[i])
    THEN CHOOSE i \in 1..Len(cands) :
            /\ Match(cands[i])
            /\ \A j \in 1..(i - 1) : ~Match(cands[j])
    ELSE 0

pickBestCandidateByWebsite(cands, url) ==
    LET target == Hostname(url)
        exact == FindIndex(cands, LAMBDA w :
                     w # NoUrl /\ normalizeHost(w) = [host |-> target, rest |-> ""])
        loose == FindIndex(cands, LAMBDA w :
                     w # NoUrl /\ normalizeHost(w).host = target)
    IN  IF exact # 0 THEN exact ELSE IF loose # 0 THEN loose ELSE 1

\* the clarify handler: no candidates, a list to choose from, or one picked
ClarifyChoose(cands, url) ==
    LET enriched == enrich(cands)
        exactDomain == FindIndex(enriched, LAMBDA w :
                           w # NoUrl /\ normalizeHost(w) = normalizeHost(url))
    IN  IF cands = <<>> THEN MkChoice("no_match", 0, 0)
        ELSE IF exactDomain = 0 /\ Len(enriched) > 1
        THEN MkChoice("choose", 0, Len(enriched))
        ELSE IF exactDomain # 0 THEN MkChoice("picked", exactDomain, 0)
        ELSE MkChoice("picked", pickBestCandidateByWebsite(enriched, url), 0)

\* results.slice(0, 6) are offered
OfferLimit == 6

\* resolvePlaceId (src/api/server.js): domain match, single result, or the
\* first six offered
resolvePlaceId(cands, url) ==
    LET chosen == IF url = NoUrl THEN 0
                  ELSE FindIndex(cands, LAMBDA w :
                           w # NoUrl /\ normDomain(w) = normDomain(url))
    IN  IF cands = <<>> THEN MkChoice("no_match", 0, 0)
        ELSE IF chosen # 0 THEN MkChoice("picked", chosen, 0)
        ELSE IF Len(cands) = 1 THEN MkChoice("picked", 1, 0)
        ELSE MkChoice("choose", 0, Min(OfferLimit, Len(cands)))


\* the website the caller supplies (the clarify handler requires one)
SuppliedUrls ==
    { MkUrl("https://", FALSE, "acme.com", ""),
      MkUrl("https://", TRUE, "ACME.com", "/contact"),
      MkUrl("https://", FALSE, "acme.com", "?utm=gmb") }

\* the website the directory lists for a candidate, NoUrl for none
ListedUrls ==
    { NoUrl,
      MkUrl("http://", TRUE, "acme.com", "/"),
      MkUrl("https://", FALSE, "other.com", "/") }

MaxCands == 6

CandidateLists == UNION {[1..n -> ListedUrls] : n \in 0..MaxCands}

MkSelect(handler, url, cands, out) ==
    [op |-> "select", handler |-> handler, url |-> url, cands |-> cands,
     out |-> out]

InitSelect ==
    /\ server = "" /\ req = NoReq /\ pc = "idle"
    /\ placeId = NoPlace /\ details = NoDetails /\ site = NoSite
    /\ resp = NoResp /\ prev = NoPrev
    /\ AuxIdle
    /\ \E handler \in {"clarify", "api"}, cands \in CandidateLists,
          url \in SuppliedUrls \cup {NoUrl} :
         /\ handler = "clarify" => url # NoUrl
         /\ fn = MkSelect(handler, url, cands, NoChoice)

ApplyClarifyChoose ==
    /\ fn.op = "select" /\ fn.handler = "clarify" /\ fn.out = NoChoice
    /\ fn' = [fn EXCEPT !.out = ClarifyChoose(fn.cands, fn.url)]
    /\ UNCHANGED <<server, req, pc, placeId, details, site, resp, prev, aux>>

ApplyResolvePlaceId ==
    /\ fn.op = "select" /\ fn.handler = "api" /\ fn.out = NoChoice
    /\ fn' = [fn EXCEPT !.out = resolvePlaceId(fn.cands, fn.url)]
    /\ UNCHANGED <<server, req, pc, placeId, details, site, resp, prev, aux>>

NextSelect == ApplyClarifyChoose \/ ApplyResolvePlaceId

SpecSelect == InitSelect /\ [][NextSelect]_vars

\* the candidates whose listed website has the supplied website's host
HostMatches(f) ==
    {i \in 1..Len(f.cands) :
        f.cands[i] # NoUrl /\ Hostname(f.cands[i]) = Hostname(f.url)}

Chosen(f) == f.op = "select" /\ f.out # NoChoice

\* C13: if some candidate's website host equals the supplied website's
\* host (case-insensitively, a leading www. stripped), a candidate with
\* that host is selected, however many candidates there are.
C13_ExactHostSelected ==
    (Chosen(fn) /\ fn.url # NoUrl /\ HostMatches(fn) # {})
    => (fn.out.kind = "picked" /\ fn.out.index \in HostMatches(fn))


\* C14: when the search returned more than one candidate and none of them
\* is singled out by the supplied website, a request that is answered 200
\* is answered with the candidate choices, and no candidate is picked and
\* scored.
C14_AmbiguousReturnsChoices ==
    (pc = "done" /\ found.n > 1 /\ ~found.exact /\ resp.http = 200)
    => (resp = ChooseResp /\ placeId = NoPlace)


\* a response that tells the caller no profile was found: the 404 of the
\* clarify handler, or a NEEDS_INPUT / SITE_ONLY answer without a place
ReportsNoMatch(r) ==
    \/ r = ErrResp(404, "No Google Business Profile found")
    \/ r.status \in {"NEEDS_INPUT", "SITE_ONLY"}

\* C15: when the place search ran through all its queries and found no
\* candidate, the request selects no place and, unless it fails with a
\* server error, its response reports that nothing was found instead of a
\* score for a guessed place.
C15_NoMatchReported ==
    (pc = "done" /\ found.searched /\ found.n = 0)
    => (/\ placeId = NoPlace
        /\ resp.http < 500 => ReportsNoMatch(resp))


\* the ServiceRequest invariant: a name or a place identifier, and a
\* service area unless a place identifier was supplied
ServiceRequest(r) ==
    /\ r.businessName \/ r.placeId
    /\ r.serviceArea \/ r.placeId

\* C16: a request whose place search ran, or that was answered with a
\* score, satisfies the ServiceRequest invariant.
C16_ServiceRequestInvariant ==
    (found.searched \/ (pc = "done" /\ resp.scoreKind = "number"))
    => ServiceRequest(req)


\* the response of the normal path when the LLM contributes nothing
WithoutLlmResp ==
    IF server = "legacy"
    THEN MkResp(200, TRUE, "", "", "number",
                calculateFinalScore(LegacyRating10(details), details.reviews,
                                    NoScores, req.businessType))
    ELSE MkResp(200, TRUE, "", "", "number",
                calculateFinalScoreLog(details.rating10, details.reviews,
                                       NoScores, FALSE, req.businessType))

\* C17: when the LLM call fails or times out, the request still completes
\* on its normal path, scored from the profile with the LLM contributing
\* nothing.
C17_LlmFailureAbsorbed ==
    (pc = "done" /\ llm.call = "failed") => resp = WithoutLlmResp

\* C18: with the directory key configured and no LLM key, a request is
\* not turned away for the missing key, and its response does not report
\* the qualitative sub-scores as zero.
C18_NoLlmKeyServedSubScoresAbsent ==
    (pc = "done" /\ llm.mapsKey /\ ~llm.key)
    => (/\ resp # ErrResp(500, "Server configuration missing")
        /\ llm.reported # "zero")


\* ---------------------------------------------------------------------
\* Calls to the places directory during one resolution: the query variants
\* in turn until one has results, then the details of the place.  The
\* clarify handler calls through withOneRetry (part_002:1501), the v1
\* handler through mapsCall (part_003:781).
\* ---------------------------------------------------------------------

\* how one attempt ends: results, no results, HTTP 429 / OVER_QUERY_LIMIT,
\* any other failure
Outcomes == {"hit", "empty", "quota", "error"}

\* await sleep(350)
BackoffMs == 350

MaxVariants == 3

MkCalls(via, todo, kind, phase, attempts, first, log, slept, status) ==
    [op |-> "calls", via |-> via, todo |-> todo, kind |-> kind,
     phase |-> phase, attempts |-> attempts, first |-> first, log |-> log,
     slept |-> slept, status |-> status]

InitCalls ==
    /\ server = "" /\ req = NoReq /\ pc = "idle"
    /\ placeId = NoPlace /\ details = NoDetails /\ site = NoSite
    /\ resp = NoResp /\ prev = NoPrev
    /\ AuxIdle
    /\ \E via \in {"withOneRetry", "mapsCall"}, n \in 1..MaxVariants :
         fn = MkCalls(via, n, "search", "call", 0, "", <<>>, 0, "")

\* the call is over with outcome last: the loop over the variants goes on,
\* the details are fetched, or the handler answers
CloseCall(f, attempts, first, last) ==
    LET entry == [kind |-> f.kind, attempts |-> attempts, first |-> first,
                  last |-> last]
        g == [f EXCEPT !.log = Append(f.log, entry), !.attempts = 0,
                       !.first = ""]
    IN  IF f.kind = "search"
        THEN IF last = "hit"
             THEN [g EXCEPT !.kind = "details", !.phase = "call"]
             ELSE IF f.todo > 1
             THEN [g EXCEPT !.todo = f.todo - 1, !.phase = "call"]
             ELSE [g EXCEPT !.todo = 0, !.phase = "done",
                            !.status = "no_match"]
        ELSE [g EXCEPT !.phase = "done",
                       !.status = IF last = "hit" \/ f.via = "withOneRetry"
                                  THEN "resolved"
                                  ELSE "place_details_failed"]

\* the first attempt; only withOneRetry looks at the kind of failure
CallAttempt ==
    /\ fn.op = "calls" /\ fn.phase = "call"
    /\ \E o \in Outcomes :
         /\ fn.kind = "details" => o # "empty"
         /\ fn' = IF o = "quota" /\ fn.via = "withOneRetry"
                  THEN [fn EXCEPT !.phase = "backoff", !.attempts = 1,
                                  !.first = o]
                  ELSE CloseCall(fn, 1, o, o)
    /\ UNCHANGED <<server, req, pc, placeId, details, site, resp, prev, aux>>

CallBackoff ==
    /\ fn.op = "calls" /\ fn.phase = "backoff"
    /\ fn' = [fn EXCEPT !.phase = "retry", !.slept = fn.slept + BackoffMs]
    /\ UNCHANGED <<server, req, pc, placeId, details, site, resp, prev, aux>>

\* the second attempt; whatever it throws is thrown on (throw e2)
CallRetry ==
    /\ fn.op = "calls" /\ fn.phase = "retry"
    /\ \E o \in Outcomes :
         /\ fn.kind = "details" => o # "empty"
         /\ fn' = CloseCall(fn, 2, fn.first, o)
    /\ UNCHANGED <<server, req, pc, placeId, details, site, resp, prev, aux>>

NextCalls == CallAttempt \/ CallBackoff \/ CallRetry

SpecCalls == InitCalls /\ [][NextCalls]_vars

\* C19: every directory call is attempted at most twice, and it is
\* attempted a second time exactly when its first attempt ended in a 429 /
\* quota error, after one backoff of BackoffMs.
C19_QuotaRetriedOnce ==
    fn.op = "calls"
    => /\ \A i \in 1..Len(fn.log) :
            /\ fn.log[i].attempts <= 2
            /\ fn.log[i].attempts = 2 <=> fn.log[i].first = "quota"
       /\ fn.phase = "done" =>
            fn.slept = BackoffMs * Cardinality({i \in 1..Len(fn.log) :
                                                  fn.log[i].first = "quota"})

\* the directory calls on which the answer rests all ended in a quota error
QuotaPersisted(f) ==
    /\ f.op = "calls" /\ f.phase = "done"
    /\ \A i \in 1..Len(f.log) :
          f.log[i].kind = "search" /\ f.log[i].last # "hit"
              => f.log[i].last = "quota"
    /\ f.log[Len(f.log)].last = "quota"

\* C20: a quota error that persists is reported with a status of its own,
\* neither the no-match status nor that of a generic upstream failure.
C20_QuotaReportedDistinctly ==
    QuotaPersisted(fn) => fn.status = "api_quota"

\* ---------------------------------------------------------------------
\* The website probe: one HEAD request under an abort timer, wrapped in
\* try / catch.  part_002:158-169 answers { ok, status } (the paths
\* handler reads reachable = !!siteProbe.ok), part_003:923-954 answers
\* { checked, reachable, https, hasContact, ... } after a second HEAD of
\* /contact.
\* ---------------------------------------------------------------------

\* status codes a HEAD that followed redirects can end with
Statuses == {200, 204, 301, 304, 399, 400, 404, 500}

\* what the caller hands over: nothing, a host without scheme, a URL with
\* scheme, a value that is not a string
ProbeUrls == {"none", "bare", "http", "https", "nonstring"}

\* how awaiting fetch ends: the promise rejects (network error, abort by
\* the timer) or resolves with a response
MkHead(kind, status) == [kind |-> kind, status |-> status]

HeadOutcomes ==
    {MkHead(k, 0) : k \in {"network_error", "timeout"}}
        \cup {MkHead("response", s) : s \in Statuses}

\* Response.ok of the Fetch API: status in the range 200-299
ResOkAny(status) == status >= 200

ResOk(status) == status >= 200 /\ status <= 299

\* if (res.ok || (res.status >= 200 && res.status < 400))
HeadOk002(status) == ResOk(status) \/ (status >= 200 /\ status < 400)

MkProbe(version, url, phase, head, reachable, hasContact, result) ==
    [op |-> "probe", version |-> version, url |-> url, phase |-> phase,
     head |-> head, reachable |-> reachable, hasContact |-> hasContact,
     result |-> result]

\* what the caller of probeSite gets: a value, or an exception
ProbeValue(checked, reachable, https, hasContact) ==
    [kind |-> "value", checked |-> checked, reachable |-> reachable,
     https |-> https, hasContact |-> hasContact]

NoProbeResult == [kind |-> "pending"]

\* catch (e) { return { ok: false, error: String(e) } }
Caught002 == ProbeValue(TRUE, FALSE, FALSE, FALSE)

\* catch (e) { return { checked: true, reachable: false,
\*                      https: /^https:\/\//i.test(url || ""), ... } }
Caught003(url) == ProbeValue(TRUE, FALSE, url = "https", FALSE)

\* if (!/^https?:\/\//i.test(u)) u = "https://" + u;  u.startsWith("https://")
Https003(url) == url \in {"bare", "https"}

InitProbe ==
    /\ server = "" /\ req = NoReq /\ pc = "idle"
    /\ placeId = NoPlace /\ details = NoDetails /\ site = NoSite
    /\ resp = NoResp /\ prev = NoPrev
    /\ AuxIdle
    /\ \E version \in {"part_002", "part_003"}, url \in ProbeUrls :
         fn = MkProbe(version, url, "head", MkHead("", 0), FALSE, FALSE,
                      NoProbeResult)

\* part_003 answers before any request when there is no url, and url.trim()
\* throws inside the try when url is not a string; part_002 hands whatever
\* it got to fetch, which rejects when it is not a URL
ProbeHead ==
    /\ fn.op = "probe" /\ fn.phase = "head"
    /\ \E o \in HeadOutcomes :
         /\ fn.url \in {"none", "nonstring"} => o.kind = "network_error"
         /\ fn' =
              IF fn.version = "part_002"
              THEN [fn EXCEPT
                      !.phase = "done", !.head = o,
                      !.result =
                         IF o.kind # "response" THEN Caught002
                         ELSE ProbeValue(TRUE, HeadOk002(o.status), FALSE,
                                         FALSE)]
              ELSE IF fn.url = "none"
              THEN [fn EXCEPT
                      !.phase = "done",
                      !.result = ProbeValue(FALSE, FALSE, FALSE, FALSE)]
              ELSE IF fn.url = "nonstring" \/ o.kind # "response"
              THEN [fn EXCEPT !.phase = "done", !.head = o,
                              !.result = Caught003(fn.url)]
              ELSE [fn EXCEPT !.phase = "contact", !.head = o,
                              !.reachable = ResOk(o.status)]
    /\ UNCHANGED <<server, req, pc, placeId, details, site, resp, prev, aux>>

\* best-effort HEAD of /contact in a try / catch of its own: a failure
\* leaves hasContact false and does not reach the outer catch
ProbeContact ==
    /\ fn.op = "probe" /\ fn.phase = "contact"
    /\ \E o \in HeadOutcomes :
         LET hasContact == o.kind = "response" /\ ResOk(o.status)
         IN  fn' = [fn EXCEPT
                      !.phase = "done", !.hasContact = hasContact,
                      !.result = ProbeValue(TRUE, fn.reachable,
                                            Https003(fn.url), hasContact)]
    /\ UNCHANGED <<server, req, pc, placeId, details, site, resp, prev, aux>>

NextProbe == ProbeHead \/ ProbeContact

SpecProbe == InitProbe /\ [][NextProbe]_vars

\* the HEAD of the site failed: network error, timeout, or a response
\* whose status is neither 2xx nor 3xx
HeadFailed(o) ==
    \/ o.kind \in {"network_error", "timeout"}
    \/ o.kind = "response" /\ ~(o.status >= 200 /\ o.status < 400)

\* C21: the probe always answers with a value, never an exception, and a
\* network error, a timeout or a response outside 2xx/3xx gives
\* reachable = false.
C21_ProbeFoldsFailures ==
    fn.op = "probe" /\ fn.phase = "done"
    => /\ fn.result.kind = "value"
       /\ HeadFailed(fn.head) => ~fn.result.reachable

C21_Witness ==
    /\ fn.op = "probe" /\ fn.phase = "done" /\ fn.version = "part_003"
    /\ fn.head = MkHead("response", 404)
    /\ fn.hasContact
    /\ fn.result.kind = "value" /\ ~fn.result.reachable

\* ---------------------------------------------------------------------
\* What the HTTP responses carry of the environment's credentials.  A
\* response body is a set of <<field, text>> pairs; a text is a sequence
\* of pieces, a credential interpolated into it being one piece.  The keys
\* are made of characters encodeURIComponent leaves alone.
\* ---------------------------------------------------------------------

\* process.env.GOOGLE_MAPS_API_KEY / GOOGLE_MAPS_API_KEY_SERVER: the key of
\* the Places, Details and Geocoding calls
ServerKey == "AIza-server"

\* process.env.GOOGLE_MAPS_EMBED_KEY: the referrer-restricted browser key
EmbedKey == "AIza-embed"

GeminiKey == "gm-key"

Envs ==
    [maps : {"", ServerKey}, embed : {"", EmbedKey}, gemini : {"", GeminiKey}]

\* Boolean(process.env.X) / !!X as it is serialised
Present(v) == IF v # "" THEN <<"true">> ELSE <<"false">>

\* healthHandler of widget.js:1534-1540
HealthWidget(env) ==
    {<<"ok", <<"true">>>>, <<"mapsKeyPresent", Present(env.maps)>>,
     <<"geminiKeyPresent", Present(env.gemini)>>}

\* GET /api/health of api/server.js:870-881
HealthApi(env) ==
    {<<"ok", <<"true">>>>,
     <<"keysReady", Present(IF env.maps # "" THEN env.embed ELSE "")>>,
     <<"hasServerKey", Present(env.maps)>>,
     <<"hasEmbedKey", Present(env.embed)>>}

\* `https://www.google.com/maps/embed/v1/place?key=${MAPS}&q=${...}` with
\* const MAPS = process.env.GOOGLE_MAPS_API_KEY
WidgetMapEmbedUrl(env, q) ==
    <<"https://www.google.com/maps/embed/v1/place?key=", env.maps, "&q=", q>>

\* buildMapEmbedUrl: MAPS_EMBED ? `...?key=${MAPS_EMBED}&q=...` : null
buildMapEmbedUrl(env, q) ==
    IF env.embed # ""
    THEN <<"https://www.google.com/maps/embed/v1/place?key=", env.embed,
           "&q=", q>>
    ELSE <<"null">>

\* photoUrl of one competitor: '' unless the details carry a photo
\* reference and the server key is set
PhotoUrl(env, hasRef) ==
    IF hasRef /\ env.maps # ""
    THEN <<"https://maps.googleapis.com/maps/api/place/photo?maxwidth=800",
           "&photo_reference=", "ref", "&key=", env.maps>>
    ELSE <<>>

\* const q = effectiveServiceArea ? `${businessName} ${area}` : businessName
WidgetQuery(name, area) ==
    IF area # "" THEN name \o " " \o area ELSE name

\* analyzeHandler of widget.js:1669-1926 behind the config guard of
\* widget.js:1545-1553.  how: the validation of the full run fails, no
\* place is found, the run completes, or something throws.
WidgetAnalyze(env, quick, name, area, how) ==
    IF env.maps = "" \/ env.gemini = ""
    THEN {<<"error", <<"Server configuration missing API keys">>>>}
    ELSE IF quick
    THEN {<<"success", <<"true">>>>, <<"finalScore", <<"70">>>>,
          <<"mapEmbedUrl",
            WidgetMapEmbedUrl(env, IF WidgetQuery(name, area) = ""
                                   THEN "Business"
                                   ELSE WidgetQuery(name, area))>>}
    ELSE IF how = "invalid" \/ name = ""
    THEN {<<"success", <<"false">>>>,
          <<"message", <<"Missing required fields.">>>>}
    ELSE IF how = "throw"
    THEN {<<"success", <<"true">>>>, <<"finalScore", <<"70">>>>,
          <<"mapEmbedUrl", WidgetMapEmbedUrl(env, WidgetQuery(name, area))>>}
    ELSE {<<"success", <<"true">>>>,
          <<"finalScore", <<IF how = "no_place" THEN "70" ELSE "score">>>>,
          <<"mapEmbedUrl", WidgetMapEmbedUrl(env, WidgetQuery(name, area))>>}

\* the selected-place answer of the clarify handler (part_002:2040-2056)
\* behind requireEnv(["GOOGLE_MAPS_API_KEY"]) (part_002:1811)
ClarifyAnalyze(env) ==
    IF env.maps = ""
    THEN {<<"success", <<"false">>>>,
          <<"error",
            <<"Server configuration missing: ", "GOOGLE_MAPS_API_KEY">>>>}
    ELSE {<<"success", <<"true">>>>, <<"finalScore", <<"score">>>>,
          <<"mapEmbedUrl", buildMapEmbedUrl(env, "place_id:p1")>>}

MaxCompetitors == 2

\* POST /api/competitive-snapshot of api/server.js:377-461; refs tells for
\* each competitor found whether its details carry a photo
Snapshot(env, refs) ==
    IF env.maps = ""
    THEN {<<"success", <<"false">>>>,
          <<"error", <<"Missing GOOGLE_MAPS_API_KEY_SERVER">>>>}
    ELSE {<<"success", <<"true">>>>}
            \cup {<<"photoUrl", PhotoUrl(env, refs[i])>> : i \in 1..Len(refs)}

PhotoRefs ==
    UNION {[1..n -> BOOLEAN] : n \in 0..MaxCompetitors}

MkHttp(env, route, args, phase, body) ==
    [op |-> "http", env |-> env, route |-> route, args |-> args,
     phase |-> phase, body |-> body]

WidgetArgs ==
    [quick : BOOLEAN, name : {"", "acme"}, area : {"", "nj"},
     how : {"invalid", "no_place", "full", "throw"}]

InitKeys ==
    /\ server = "" /\ req = NoReq /\ pc = "idle"
    /\ placeId = NoPlace /\ details = NoDetails /\ site = NoSite
    /\ resp = NoResp /\ prev = NoPrev
    /\ AuxIdle
    /\ \E env \in Envs :
         \/ \E h \in {"widget", "api"} :
              fn = MkHttp(env, "health", [handler |-> h], "received", {})
         \/ \E a \in WidgetArgs :
              fn = MkHttp(env, "analyze_widget", a, "received", {})
         \/ fn = MkHttp(env, "analyze_clarify", [x |-> 0], "received", {})
         \/ \E refs \in PhotoRefs :
              fn = MkHttp(env, "snapshot", [refs |-> refs], "received", {})

HealthRespond ==
    /\ fn.op = "http" /\ fn.phase = "received" /\ fn.route = "health"
    /\ fn' = [fn EXCEPT !.phase = "done",
                        !.body = IF fn.args.handler = "widget"
                                 THEN HealthWidget(fn.env)
                                 ELSE HealthApi(fn.env)]
    /\ UNCHANGED <<server, req, pc, placeId, details, site, resp, prev, aux>>

WidgetAnalyzeRespond ==
    /\ fn.op = "http" /\ fn.phase = "received" /\ fn.route = "analyze_widget"
    /\ fn' = [fn EXCEPT !.phase = "done",
                        !.body = WidgetAnalyze(fn.env, fn.args.quick,
                                               fn.args.name, fn.args.area,
                                               fn.args.how)]
    /\ UNCHANGED <<server, req, pc, placeId, details, site, resp, prev, aux>>

ClarifyAnalyzeRespond ==
    /\ fn.op = "http" /\ fn.phase = "received" /\ fn.route = "analyze_clarify"
    /\ fn' = [fn EXCEPT !.phase = "done", !.body = ClarifyAnalyze(fn.env)]
    /\ UNCHANGED <<server, req, pc, placeId, details, site, resp, prev, aux>>

SnapshotRespond ==
    /\ fn.op = "http" /\ fn.phase = "received" /\ fn.route = "snapshot"
    /\ fn' = [fn EXCEPT !.phase = "done",
                        !.body = Snapshot(fn.env, fn.args.refs)]
    /\ UNCHANGED <<server, req, pc, placeId, details, site, resp, prev, aux>>

NextKeys ==
    \/ HealthRespond
    \/ WidgetAnalyzeRespond
    \/ ClarifyAnalyzeRespond
    \/ SnapshotRespond

SpecKeys == InitKeys /\ [][NextKeys]_vars

\* the text holds the key as one of its pieces
Carries(text, key) == key # "" /\ \E i \in 1..Len(text) : text[i] = key

\* C22: no response body carries the value of the directory key, and the
\* health answers carry nothing but true / false.
C22_ServerKeyNeverInResponse ==
    fn.op = "http" /\ fn.phase = "done"
    => /\ \A f \in fn.body : ~Carries(f[2], fn.env.maps)
       /\ fn.route = "health"
            => \A f \in fn.body : f[2] \in {<<"true">>, <<"false">>}

\* ---------------------------------------------------------------------
\* The geocoding of the service area and the directory searches that
\* follow it in one candidate search, as four generations of the code
\* issue them: resolvePlaceCandidates of part_003:233-274 (one query,
\* three stages), resolvePlaceCandidates of part_002:1542-1622 (a list of
\* variants, each a query with one kind of call), resolvePlaceRobust of
\* part_003:846-872 (a Text Search per query until one has results),
\* resolvePlace of part_002:292-329 (a Text Search per query, no geocoding).
\* ---------------------------------------------------------------------

\* biased: the call carries locationbias / location + radius
MkStage(q, stage, biased) == [q |-> q, stage |-> stage, biased |-> biased]

\* findPlaceFromText with locationbias, without it, textSearch
StageRank(stage) ==
    CASE stage = "find_biased" -> 1
      [] stage = "find" -> 2
      [] stage = "text" -> 3

\* how the geocoding call ends: a result with a location, no result, HTTP
\* 429, another failure, the timeout
GeocodeOutcomes == {"center", "empty", "quota", "error", "timeout"}

\* the geocoding call made through withOneRetry: a 429 is tried again
GeocodeCallsWithRetry(area, o) ==
    IF ~area THEN 0 ELSE IF o = "quota" THEN 2 ELSE 1

\* calls the geocoder issues: none for a blank area, else one
\* mapsClient.geocode / mapsCall(gmaps.geocode), outside withOneRetry
GeocodeCalls(area, o) == IF ~area THEN 0 ELSE 1

\* a geocoder that answers with a center whatever the call gave
GeocodeCenterKept(area, o) == area

\* what the geocoder returns is a center (not null): the call gave a
\* first result with a location; no result, a failure and a blank area
\* give null
GeocodeCenter(area, o) == area /\ o = "center"

\* part_003:237-273: the biased call is made only when the geocoder gave a
\* center; input = [businessName, serviceArea].filter(Boolean).join(" ")
Plan003(area, bias) ==
    LET q == IF area THEN "name area" ELSE "name"
    IN  IF bias
        THEN <<MkStage(q, "find_biased", TRUE), MkStage(q, "find", FALSE),
               MkStage(q, "text", FALSE)>>
        ELSE <<MkStage(q, "find", FALSE), MkStage(q, "text", FALSE)>>

\* withBias && biasInfo?.lat && biasInfo?.lng
FindStage(q, withBias, bias) ==
    MkStage(q, IF withBias /\ bias THEN "find_biased" ELSE "find",
            withBias /\ bias)

TextStage(q, withBias, bias) == MkStage(q, "text", withBias /\ bias)

SelectSeq2(s, keep) ==
    LET F[i \in 0..Len(s)] ==
          IF i = 0 THEN <<>>
          ELSE IF keep[i] THEN Append(F[i - 1], s[i]) ELSE F[i - 1]
    IN  F[Len(s)]

\* const variants = [ ... ].filter(Boolean)  (part_002:1599-1611)
Plan002(host, name, area, bias) ==
    SelectSeq2(
      <<FindStage("host", TRUE, bias),
        FindStage("host", FALSE, bias),
        FindStage("name area", TRUE, bias),
        FindStage("name area", FALSE, bias),
        TextStage("namenospace area", TRUE, bias),
        TextStage("name specialty area", TRUE, bias),
        TextStage("host", TRUE, bias),
        TextStage("name", FALSE, bias)>>,
      <<host, host, name /\ area, name /\ area, name /\ area, name /\ area,
        host, name>>)

\* resolvePlace: one Text Search per query of Queries(name, bt, area)
PlanResolvePlace(name, bt, area) ==
    LET qs == Queries(name, bt, area)
    IN  [i \in 1..Len(qs) |-> MkStage(qs[i], "text", FALSE)]

DropToken(s, t) == SelectSeq2(s, [i \in 1..Len(s) |-> s[i] # t])

\* expandNameVariants of part_003:808-818: the name, the name without inc,
\* llc, co, corp; a Set, blanks dropped
expandNameVariants003(name) ==
    LET out == Dedup(<<name, DropToken(name, "inc"), DropToken(name, "llc"),
                       DropToken(name, "co"), DropToken(name, "corp")>>, {})
    IN  SelectSeq2(out, [i \in 1..Len(out) |-> out[i] # <<>>])

\* expandTradeSynonyms(businessType)
expandTradeSynonyms(bt) ==
    IF bt = <<"roofer">> THEN <<<<"roofing", "contractor">>>> ELSE <<>>

\* the queries of resolvePlaceRobust in the order they enter the Set
QueriesRobust(name, bt, area) ==
    LET vs == expandNameVariants003(name)
        tvs == IF bt = <<>> THEN <<>> ELSE <<bt>> \o expandTradeSynonyms(bt)
        PerName(n) ==
            <<n \o <<",">> \o area>>
              \o (IF bt = <<>> THEN <<>> ELSE <<n \o bt \o area>>)
              \o [k \in 1..Len(tvs) |-> n \o tvs[k] \o area]
        All[i \in 0..Len(vs)] ==
            IF i = 0 THEN <<>> ELSE All[i - 1] \o PerName(vs[i])
    IN  Dedup(All[Len(vs)] \o <<name \o area>>, {})

\* if (center) { params.location = center; params.radius = 80000 }
PlanRobust(name, bt, area, bias) ==
    LET qs == QueriesRobust(name, bt, area)
    IN  [i \in 1..Len(qs) |-> MkStage(qs[i], "text", bias)]

\* how one search call ends
StageOutcomes == {"hit", "empty", "throw"}

StageNames == {<<"acme">>, <<"acme", "llc">>, <<"the", "acme", "llc">>}

\* the search as the request gives it: which procedure, and its arguments
StageArgs ==
    {[impl |-> "part_003", host |-> FALSE, name |-> TRUE, area |-> a,
      tokens |-> <<>>, bt |-> <<>>] : a \in BOOLEAN}
    \cup {[impl |-> "part_002", host |-> h, name |-> n, area |-> a,
           tokens |-> <<>>, bt |-> <<>>] :
             h \in BOOLEAN, n \in BOOLEAN, a \in BOOLEAN}
    \cup {[impl |-> "robust", host |-> FALSE, name |-> TRUE, area |-> TRUE,
           tokens |-> t, bt |-> b] :
             t \in {<<"acme">>, <<"acme", "llc">>},
             b \in {<<>>, <<"roofer">>}}
    \cup {[impl |-> "resolvePlace", host |-> FALSE, name |-> TRUE,
           area |-> TRUE, tokens |-> t, bt |-> <<>>] : t \in StageNames}

PlanOf(args, bias) ==
    CASE args.impl = "part_003" -> Plan003(args.area, bias)
      [] args.impl = "part_002" ->
           Plan002(args.host, args.name, args.area, bias)
      [] args.impl = "robust" ->
           PlanRobust(args.tokens, args.bt, <<"nj">>, bias)
      [] args.impl = "resolvePlace" ->
           PlanResolvePlace(args.tokens, args.bt, <<"nj">>)

\* geo: how the geocoding ended ("" before it, "skipped" when no call was
\* made); out: the index in the log of the call whose list is returned as
\* it is, 0 for an empty list, -1 for a list put together from several
\* calls
MkStages(args, phase, geocodes, geo, bias, plan, at, log, out) ==
    [op |-> "stages", impl |-> args.impl, args |-> args, phase |-> phase,
     geocodes |-> geocodes, geo |-> geo, bias |-> bias, plan |-> plan,
     at |-> at, log |-> log, out |-> out]

InitStages ==
    /\ server = "" /\ req = NoReq /\ pc = "idle"
    /\ placeId = NoPlace /\ details = NoDetails /\ site = NoSite
    /\ resp = NoResp /\ prev = NoPrev
    /\ AuxIdle
    /\ \E args \in StageArgs :
         /\ args.host \/ args.name
         /\ fn = MkStages(args, "geocode", 0, "", FALSE, <<>>, 1, <<>>, 0)

\* const biasInfo = await geocodeServiceAreaForBias(...) / const center =
\* await geocodeCenter(serviceArea): null without an area and on every
\* failure; resolvePlace does not geocode.  A search with no variant to
\* try returns [] at once.
Geocode ==
    /\ fn.op = "stages" /\ fn.phase = "geocode"
    /\ \E o \in GeocodeOutcomes :
         LET called == fn.impl # "resolvePlace" /\ fn.args.area
             bias == fn.impl # "resolvePlace"
                        /\ GeocodeCenter(fn.args.area, o)
             plan == PlanOf(fn.args, bias)
         IN  /\ ~called => o = "empty"
             /\ fn' = [fn EXCEPT
                         !.phase = IF plan = <<>> THEN "done" ELSE "call",
                         !.geocodes =
                            IF fn.impl = "resolvePlace" THEN 0
                            ELSE fn.geocodes + GeocodeCalls(fn.args.area, o),
                         !.geo = IF called THEN o ELSE "skipped",
                         !.bias = bias,
                         !.plan = plan]
    /\ UNCHANGED <<server, req, pc, placeId, details, site, resp, prev, aux>>

\* where the code goes after the call at f.at ended with outcome o
AfterStage(f, o) ==
    LET g == [f EXCEPT !.log = Append(f.log, [q |-> f.plan[f.at].q,
                                              stage |-> f.plan[f.at].stage,
                                              biased |-> f.plan[f.at].biased,
                                              outcome |-> o])]
        last == f.at = Len(f.plan)
        hits == {i \in 1..Len(g.log) : g.log[i].outcome = "hit"}
    IN  CASE f.impl = "resolvePlace" ->
               \* every query is searched, the results are pushed together
               IF last
               THEN [g EXCEPT !.phase = "done",
                              !.out = IF hits = {} THEN 0 ELSE -1]
               ELSE [g EXCEPT !.at = f.at + 1]
          [] f.impl \in {"part_002", "robust"} ->
               \* if (out?.length) return out;  a failure: next variant
               IF o = "hit"
               THEN [g EXCEPT !.phase = "done", !.out = Len(g.log)]
               ELSE IF last THEN [g EXCEPT !.phase = "done", !.out = 0]
               ELSE [g EXCEPT !.at = f.at + 1]
          [] f.impl = "part_003" ->
               \* a throw of either find call lands in the catch before the
               \* Text Search, whose result is returned whatever it is
               IF o = "hit"
               THEN [g EXCEPT !.phase = "done", !.out = Len(g.log)]
               ELSE IF last THEN [g EXCEPT !.phase = "done", !.out = 0]
               ELSE IF o = "throw" THEN [g EXCEPT !.at = Len(f.plan)]
               ELSE [g EXCEPT !.at = f.at + 1]

StageCall ==
    /\ fn.op = "stages" /\ fn.phase = "call"
    /\ \E o \in StageOutcomes : fn' = AfterStage(fn, o)
    /\ UNCHANGED <<server, req, pc, placeId, details, site, resp, prev, aux>>

NextStages == Geocode \/ StageCall

SpecStages == InitStages /\ [][NextStages]_vars

\* nothing is queried after a call that had results, and those results are
\* what the search returns
ShortCircuits(f) ==
    /\ \A i \in 1..Len(f.log) : f.log[i].outcome = "hit" => i = Len(f.log)
    /\ f.phase = "done" /\ f.log # <<>> /\ f.log[Len(f.log)].outcome = "hit"
         => f.out = Len(f.log)

\* the calls of one variant follow each other, find-place with bias, then
\* without, then Text Search, each only after the one before had no result
StagesInOrder(f) ==
    \A i, j \in 1..Len(f.log) :
       i < j /\ f.log[i].q = f.log[j].q
       => /\ StageRank(f.log[i].stage) < StageRank(f.log[j].stage)
          /\ f.log[i].outcome # "hit"
          /\ \A k \in i..j : f.log[k].q = f.log[i].q

\* the variants are taken in the order of the plan
VariantsInOrder(f) ==
    \A i \in 1..Len(f.log) :
       \E k \in i..Len(f.plan) :
          f.plan[k].q = f.log[i].q /\ f.plan[k].stage = f.log[i].stage

\* C23: per variant the stages run biased find-place, unbiased find-place,
\* Text Search, each only while the result is still empty; the first
\* non-empty list is returned as it is and nothing is queried after it.
C23_StagesShortCircuit ==
    fn.op = "stages"
    => ShortCircuits(fn) /\ StagesInOrder(fn) /\ VariantsInOrder(fn)

\* C25: one candidate search, which a request runs at most once, issues at
\* most one geocoding call, however many variants and stages it tries.
C25_AtMostOneGeocode ==
    fn.op = "stages" => fn.geocodes <= 1

C25_Witness ==
    /\ fn.op = "stages" /\ fn.phase = "done" /\ fn.impl = "part_002"
    /\ fn.geocodes = 1 /\ fn.geo = "center"
    /\ Len(fn.log) = 8

\* the geocoding call was made and gave no center
GeocodeFailed(f) == f.geo \in {"empty", "quota", "error", "timeout"}

\* C26: after a geocoding that failed (error, timeout, no result) the
\* geocoder's answer is null, the searches are still made, none of them
\* with a location bias.
C26_GeocodeFailureSearchesUnbiased ==
    fn.op = "stages" /\ GeocodeFailed(fn)
    => /\ ~fn.bias
       /\ fn.plan # <<>>
       /\ fn.phase = "done" => fn.log # <<>>
       /\ \A i \in 1..Len(fn.log) : ~fn.log[i].biased

C26_Witness ==
    /\ fn.op = "stages" /\ fn.phase = "done" /\ fn.impl = "part_003"
    /\ fn.geo = "timeout" /\ fn.geocodes = 1
    /\ Len(fn.log) = 2 /\ fn.log[2].outcome = "hit" /\ fn.out = 2

\* ---------------------------------------------------------------------
\* The state-code filter of tryText (part_002:1574-1593).  A formatted
\* address is a sequence of words, the comma being a word of its own.
\* ---------------------------------------------------------------------

\* formatted_address values of Text Search results; <<>> is a result
\* without formatted_address (r.formatted_address || "")
Addresses ==
    {<<"newark", ",", "NJ", "07102">>,
     <<"trenton", ",", "nj">>,
     <<"albany", ",", "NY">>,
     <<"NJ", "plaza", ",", "albany">>,
     <<>>}

\* serviceAreaStateCode(normalizedSA): a two-letter code in upper case, or
\* null (here "")
StateHints == {"", "NJ", "NY"}

\* the "i" flag of the RegExp
UpperCase(w) ==
    CASE w = "nj" -> "NJ"
      [] w = "ny" -> "NY"
      [] OTHER -> w

\* new RegExp(`,\\s*${stateHint}\\b`, "i").test(address)
MatchesState(address, stateHint) ==
    \E i \in 1..(Len(address) - 1) :
       address[i] = "," /\ UpperCase(address[i + 1]) = stateHint

\* rawResults.filter(r => re.test(r.formatted_address || ""))
FilterByState(rawResults, stateHint) ==
    SelectSeq2(rawResults,
               [i \in 1..Len(rawResults) |->
                   MatchesState(rawResults[i], stateHint)])

StateFilteredAlways(rawResults, stateHint) ==
    IF stateHint # "" THEN FilterByState(rawResults, stateHint)
    ELSE rawResults

\* let results = rawResults;
\* if (stateHint) { ...; if (filtered.length) results = filtered; }
StateFiltered(rawResults, stateHint) ==
    IF stateHint # "" /\ FilterByState(rawResults, stateHint) # <<>>
    THEN FilterByState(rawResults, stateHint)
    ELSE rawResults

MaxResults == 3

RawResults == UNION {[1..n -> Addresses] : n \in 0..MaxResults}

MkFilter(stateHint, rawResults, phase, results) ==
    [op |-> "filter", stateHint |-> stateHint, rawResults |-> rawResults,
     phase |-> phase, results |-> results]

InitFilter ==
    /\ server = "" /\ req = NoReq /\ pc = "idle"
    /\ placeId = NoPlace /\ details = NoDetails /\ site = NoSite
    /\ resp = NoResp /\ prev = NoPrev
    /\ AuxIdle
    /\ \E h \in StateHints, raw \in RawResults :
         fn = MkFilter(h, raw, "raw", <<>>)

ApplyStateFilter ==
    /\ fn.op = "filter" /\ fn.phase = "raw"
    /\ fn' = [fn EXCEPT !.phase = "done",
                        !.results = StateFiltered(fn.rawResults,
                                                  fn.stateHint)]
    /\ UNCHANGED <<server, req, pc, placeId, details, site, resp, prev, aux>>

NextFilter == ApplyStateFilter

SpecFilter == InitFilter /\ [][NextFilter]_vars

\* C24: what tryText returns is empty only when the search returned
\* nothing; when no result passes the state filter the unfiltered list is
\* returned, otherwise exactly the results that pass.
C24_FilterNeverEmpties ==
    fn.op = "filter" /\ fn.phase = "done"
    => /\ fn.rawResults # <<>> => fn.results # <<>>
       /\ LET pass == {i \in 1..Len(fn.rawResults) :
                         MatchesState(fn.rawResults[i], fn.stateHint)}
          IN  IF pass = {} THEN fn.results = fn.rawResults
              ELSE /\ Len(fn.results) = Cardinality(pass)
                   /\ \A k \in 1..Len(fn.results) :
                         MatchesState(fn.results[k], fn.stateHint)

\* a state hint is given, results exist, none of them is in that state
C24_Witness ==
    /\ fn.op = "filter" /\ fn.phase = "done"
    /\ fn.stateHint = "NY"
    /\ fn.rawResults = <<<<"newark", ",", "NJ", "07102">>,
                         <<"NJ", "plaza", ",", "albany">>>>
    /\ fn.results = fn.rawResults

\* ---------------------------------------------------------------------
\* The details caches and the lookups through them, with concurrent
\* requests.  Three generations: _cache with cacheGet / cacheSet of
\* part_002:122-135 read by the paths handler (part_002:444-470), cache
\* of part_003:763-774 read by the v1 handler (part_003:1234-1255), and
\* PLACE_CACHE with getFromCache / setCache of part_002:1516-1532 read by
\* fetchPlaceDetails (part_002:1624-1644).  A Map is a sequence of entries
\* in insertion order.  The handlers run on one thread: what lies between
\* two awaits is one step.
\* ---------------------------------------------------------------------

MaxTime == 3

\* the TTLs (12 h, 6 h, 1 h) in ticks of the model's clock
TtlTicks == 2

\* if (PLACE_CACHE.size > 500): scaled to the place ids of the model
EvictAbove == 1

CacheKeys == {"p1", "p2"}

\* results a details call can carry
DetailsValues == {"d1", "d2"}

MkEntry(k, v, exp) == [k |-> k, v |-> v, exp |-> exp]

\* position of key k in the Map, 0 when it has none
MapIndex(c, k) ==
    IF \E i \in 1..Len(c) : c[i].k = k
    THEN CHOOSE i \in 1..Len(c) : c[i].k = k
    ELSE 0

MapHas(c, k) == MapIndex(c, k) # 0

\* Map.prototype.set: an existing key keeps its position
MapSet(c, e) ==
    IF MapHas(c, e.k) THEN [c EXCEPT ![MapIndex(c, e.k)] = e]
    ELSE Append(c, e)

\* Map.prototype.delete
MapDelete(c, k) == SelectSeq2(c, [i \in 1..Len(c) |-> c[i].k # k])

\* a read that never looks at the expiry
ExpiredNever(e, t) == FALSE

\* hit.exp < now() / now() > hit.expires / Date.now() > hit.exp
Expired(e, t) == t > e.exp

MkRead(val, cache) == [val |-> val, cache |-> cache]

\* cacheGet of part_002:127-135 and part_003:765-773 at time t
cacheGetAt(c, k, t) ==
    IF ~MapHas(c, k) THEN MkRead("absent", c)
    ELSE IF Expired(c[MapIndex(c, k)], t) THEN MkRead("absent", MapDelete(c, k))
    ELSE MkRead(c[MapIndex(c, k)].v, c)

\* getFromCache: a live entry is deleted and set again, which moves it to
\* the end of the Map
getFromCache(c, k, t) ==
    IF ~MapHas(c, k) THEN MkRead("absent", c)
    ELSE IF Expired(c[MapIndex(c, k)], t) THEN MkRead("absent", MapDelete(c, k))
    ELSE MkRead(c[MapIndex(c, k)].v,
                Append(MapDelete(c, k), c[MapIndex(c, k)]))

\* a set that leaves an entry already under the key alone
cacheSetKeepFirst(c, k, v, t) ==
    IF MapHas(c, k) THEN c ELSE Append(c, MkEntry(k, v, t + TtlTicks))

\* cacheSet(k, val, ttl) at time t
cacheSetAt(c, k, v, t) == MapSet(c, MkEntry(k, v, t + TtlTicks))

\* setCache with the size limit as a parameter: set, then drop the first
\* key when the Map grew too large
setCacheAbove(limit, c, k, v, t) ==
    LET c1 == MapSet(c, MkEntry(k, v, t + TtlTicks))
    IN  IF Len(c1) > limit THEN Tail(c1) ELSE c1

\* setCache(id, val) at time t
setCache(c, k, v, t) == setCacheAbove(EvictAbove, c, k, v, t)

\* cacheGet(k) / getFromCache(placeId)
CacheRead(impl, c, k, t) ==
    IF impl = "PLACE_CACHE" THEN getFromCache(c, k, t) ELSE cacheGetAt(c, k, t)

CacheWriteNothing(impl, c, k, v, t) == c

\* cacheSet(k, details, ttl) / setCache(placeId, result)
CacheWrite(impl, c, k, v, t) ==
    IF impl = "PLACE_CACHE" THEN setCache(c, k, v, t)
    ELSE cacheSetAt(c, k, v, t)

\* how one attempt of the details call ends: a result, an answer without
\* result, a failure, HTTP 429
DetailsOutcomes == DetailsValues \cup {"none", "error", "quota"}

MaxReqs == 3

\* one lookup: kind is "hit", "miss" or "bypass" once the cache was (not)
\* read, saw what the read returned, calls the details calls issued,
\* result what the lookup gives its caller, wrote the entry found under
\* the key right after this lookup stored
MkLookup(id, bypass, at, kind, saw, calls, first, result, wrote) ==
    [id |-> id, bypass |-> bypass, pc |-> at, kind |-> kind, saw |-> saw,
     calls |-> calls, first |-> first, result |-> result, wrote |-> wrote]

NoEntry == MkEntry("", "", 0)

NoRead == [k |-> "", t |-> 0, had |-> FALSE, exp |-> 0, val |-> "absent",
           removed |-> FALSE, due |-> "any"]

\* lastRead: the latest read of the cache, due being the value owed under
\* its key at that time ("any" when none is); lastWrite: per key the entry
\* the latest store wrote, NoEntry once the key was removed; owed: per key
\* the value cached when the key was empty, expired or written by a
\* nocache request, with its expiry
MkCache(impl, now, cache, reqs, lastRead, lastWrite, owed) ==
    [op |-> "cache", impl |-> impl, now |-> now, cache |-> cache,
     reqs |-> reqs, lastRead |-> lastRead, lastWrite |-> lastWrite,
     owed |-> owed]

\* the requests are interchangeable: they are drawn in one order only
LookupRank(id, bypass) ==
    (IF id = "p2" THEN 2 ELSE 0) + (IF bypass THEN 1 ELSE 0)

InitCache ==
    /\ server = "" /\ req = NoReq /\ pc = "idle"
    /\ placeId = NoPlace /\ details = NoDetails /\ site = NoSite
    /\ resp = NoResp /\ prev = NoPrev
    /\ AuxIdle
    /\ \E impl \in {"_cache", "cache", "PLACE_CACHE"},
          ids \in [1..MaxReqs -> CacheKeys],
          bypass \in [1..MaxReqs -> BOOLEAN] :
         /\ impl = "PLACE_CACHE" => \A p \in 1..MaxReqs : ~bypass[p]
         /\ \A p \in 1..(MaxReqs - 1) :
               LookupRank(ids[p], bypass[p])
                  <= LookupRank(ids[p + 1], bypass[p + 1])
         /\ fn = MkCache(impl, 0, <<>>,
                         [p \in 1..MaxReqs |->
                            MkLookup(ids[p], bypass[p], "start", "", "absent",
                                     0, "", "", NoEntry)],
                         NoRead,
                         [k \in CacheKeys |-> NoEntry],
                         [k \in CacheKeys |-> NoEntry])

\* keys that left the Map between c and d
Removed(c, d) == {k \in CacheKeys : MapHas(c, k) /\ ~MapHas(d, k)}

Forget(w, ks) == [k \in CacheKeys |-> IF k \in ks THEN NoEntry ELSE w[k]]

\* details = bypassCache ? null : cacheGet(k) / const cached =
\* getFromCache(placeId): a cached value ends the lookup, else the details
\* call is awaited
Lookup(p) ==
    /\ fn.op = "cache" /\ fn.reqs[p].pc = "start"
    /\ LET r == fn.reqs[p]
           rd == CacheRead(fn.impl, fn.cache, r.id, fn.now)
           i == MapIndex(fn.cache, r.id)
       IN  IF r.bypass
           THEN fn' = [fn EXCEPT !.reqs[p].pc = "calling",
                                 !.reqs[p].kind = "bypass"]
           ELSE fn' = [fn EXCEPT
                  !.cache = rd.cache,
                  !.lastRead = [k |-> r.id, t |-> fn.now, had |-> i # 0,
                                exp |-> IF i # 0 THEN fn.cache[i].exp ELSE 0,
                                val |-> rd.val,
                                removed |-> ~MapHas(rd.cache, r.id),
                                due |-> IF fn.owed[r.id] # NoEntry
                                           /\ ~(fn.now > fn.owed[r.id].exp)
                                        THEN fn.owed[r.id].v
                                        ELSE "any"],
                  !.lastWrite = Forget(fn.lastWrite,
                                       Removed(fn.cache, rd.cache)),
                  !.reqs[p] =
                     IF rd.val # "absent"
                     THEN [r EXCEPT !.pc = "done", !.kind = "hit",
                                    !.saw = rd.val, !.result = rd.val]
                     ELSE [r EXCEPT !.pc = "calling", !.kind = "miss"]]
    /\ UNCHANGED <<server, req, pc, placeId, details, site, resp, prev, aux>>

\* the lookup of request p stores v and ends
Stored(f, p, v) ==
    LET r == f.reqs[p]
        c == CacheWrite(f.impl, f.cache, r.id, v, f.now)
        i == MapIndex(c, r.id)
        w == MkEntry(r.id, v, f.now + TtlTicks)
        fresh == \/ f.owed[r.id] = NoEntry
                 \/ f.now > f.owed[r.id].exp
                 \/ r.bypass
    IN  [f EXCEPT
           !.cache = c,
           !.lastWrite = [Forget(f.lastWrite, Removed(f.cache, c))
                            EXCEPT ![r.id] = w],
           !.owed = IF fresh THEN [f.owed EXCEPT ![r.id] = w] ELSE f.owed,
           !.reqs[p].pc = "done",
           !.reqs[p].result = v,
           !.reqs[p].wrote = IF i # 0 THEN c[i] ELSE NoEntry]

Ended(f, p, result) ==
    [f EXCEPT !.reqs[p].pc = "done", !.reqs[p].result = result]

\* what follows the answer o to an attempt of the details call
\*   _cache:      details = d?.data?.result || null;
\*                if (details) cacheSet(k, details, 12 h); a failure throws
\*   cache:       if (!d.ok) return 502; details = result || {};
\*                cacheSet(detailsKey, details, TTL_DETAILS_MS)
\*   PLACE_CACHE: if (result) setCache(placeId, result); return result;
\*                catch: return null
AfterDetails(f, p, o) ==
    CASE o \in DetailsValues -> Stored(f, p, o)
      [] o = "none" ->
           IF f.impl = "cache" THEN Stored(f, p, "{}") ELSE Ended(f, p, "null")
      [] OTHER ->
           CASE f.impl = "_cache" -> Ended(f, p, "throw")
             [] f.impl = "cache" -> Ended(f, p, "place_details_failed")
             [] f.impl = "PLACE_CACHE" -> Ended(f, p, "null")

\* the first attempt comes back; fetchPlaceDetails calls through
\* withOneRetry, which tries a 429 again
DetailsReturn(p) ==
    /\ fn.op = "cache" /\ fn.reqs[p].pc = "calling"
    /\ \E o \in DetailsOutcomes :
         LET f == [fn EXCEPT !.reqs[p].calls = 1, !.reqs[p].first = o]
         IN  fn' = IF o = "quota" /\ fn.impl = "PLACE_CACHE"
                   THEN [f EXCEPT !.reqs[p].pc = "retry"]
                   ELSE AfterDetails(f, p, o)
    /\ UNCHANGED <<server, req, pc, placeId, details, site, resp, prev, aux>>

\* await sleep(350); return await fn(): the second attempt comes back
DetailsRetry(p) ==
    /\ fn.op = "cache" /\ fn.reqs[p].pc = "retry"
    /\ \E o \in DetailsOutcomes :
         fn' = AfterDetails([fn EXCEPT !.reqs[p].calls = 2], p, o)
    /\ UNCHANGED <<server, req, pc, placeId, details, site, resp, prev, aux>>

\* the clock moves on
Tick ==
    /\ fn.op = "cache" /\ fn.now < MaxTime
    /\ fn' = [fn EXCEPT !.now = fn.now + 1]
    /\ UNCHANGED <<server, req, pc, placeId, details, site, resp, prev, aux>>

NextCache ==
    \/ \E p \in 1..MaxReqs : Lookup(p)
    \/ \E p \in 1..MaxReqs : DetailsReturn(p)
    \/ \E p \in 1..MaxReqs : DetailsRetry(p)
    \/ Tick

SpecCache == InitCache /\ [][NextCache]_vars

\* a finished lookup that found a live entry gave its value and called
\* nothing
HitServed(r) ==
    r.kind = "hit" => r.calls = 0 /\ r.result = r.saw /\ r.saw # "absent"

\* a finished lookup whose call carried a result left it under the place
\* id with an expiry one TTL after a moment not later than now
MissStored(r, now) ==
    r.kind = "miss" /\ r.result \in DetailsValues
    => /\ r.wrote.k = r.id /\ r.wrote.v = r.result
       /\ r.wrote.exp - TtlTicks \in 0..now

\* C27 as stated: a hit returns the cached value without a details call; a
\* miss issues exactly one details call and stores its result under the
\* place id with a TTL.
C27_MissExactlyOneCall ==
    fn.op = "cache"
    => \A p \in 1..MaxReqs :
          LET r == fn.reqs[p]
          IN  r.pc = "done"
              => /\ HitServed(r)
                 /\ MissStored(r, fn.now)
                 /\ r.kind = "miss" => r.calls = 1

\* C27 amended: a hit returns the cached value without a details call; a
\* miss issues one details call, attempted a second time exactly when the
\* lookup is fetchPlaceDetails and the first attempt was answered with a
\* 429, and a result the call carries is stored under the place id with a
\* TTL.
C27_MissOneCallRetriedOn429 ==
    fn.op = "cache"
    => \A p \in 1..MaxReqs :
          LET r == fn.reqs[p]
          IN  r.pc = "done"
              => /\ HitServed(r)
                 /\ MissStored(r, fn.now)
                 /\ r.kind = "miss" =>
                      r.calls = IF fn.impl = "PLACE_CACHE" /\ r.first = "quota"
                                THEN 2 ELSE 1

C27_Witness ==
    /\ fn.op = "cache" /\ fn.impl = "PLACE_CACHE"
    /\ \E p, q \in 1..MaxReqs :
          /\ fn.reqs[p].pc = "done" /\ fn.reqs[p].kind = "miss"
          /\ fn.reqs[p].first = "quota" /\ fn.reqs[p].calls = 2
          /\ fn.reqs[p].result = "d1"
          /\ fn.reqs[q].pc = "done" /\ fn.reqs[q].kind = "hit"
          /\ fn.reqs[q].id = fn.reqs[p].id /\ fn.reqs[q].result = "d1"
          /\ fn.reqs[q].calls = 0

\* C28: a read of a key whose entry has expired returns absent and leaves
\* the key removed; a read that returns a value found an entry whose
\* expiry had not passed.
C28_ExpiredReadAbsentAndRemoved ==
    fn.op = "cache"
    => LET r == fn.lastRead
       IN  /\ r.had /\ r.t > r.exp => r.val = "absent" /\ r.removed
           /\ r.val # "absent" => r.had /\ r.t <= r.exp

C28_Witness ==
    /\ fn.op = "cache"
    /\ fn.lastRead.had /\ fn.lastRead.t > fn.lastRead.exp
    /\ fn.lastRead.val = "absent" /\ fn.lastRead.removed

\* C29: while a value cached under a place id has neither expired nor been
\* replaced by a nocache request, every read of that id returns it.
C29_CachedValueStable ==
    fn.op = "cache" /\ fn.lastRead.due # "any"
    => fn.lastRead.val = fn.lastRead.due

\* C30: the entry under a key is, whole, the entry the latest store under
\* that key wrote: its value with its expiry.
C30_LastWriterWins ==
    fn.op = "cache"
    => \A k \in CacheKeys :
          IF fn.lastWrite[k] = NoEntry THEN ~MapHas(fn.cache, k)
          ELSE /\ MapHas(fn.cache, k)
               /\ fn.cache[MapIndex(fn.cache, k)] = fn.lastWrite[k]

\* two lookups missed on the same key before either stored, fetched
\* different details and both stored; the entry is the later one's
C30_Witness ==
    /\ fn.op = "cache" /\ fn.impl = "cache" /\ fn.now = 1
    /\ \E p, q \in 1..MaxReqs :
          /\ p # q /\ fn.reqs[p].id = fn.reqs[q].id
          /\ fn.reqs[p].pc = "done" /\ fn.reqs[p].kind = "miss"
          /\ fn.reqs[q].pc = "done" /\ fn.reqs[q].kind = "miss"
          /\ fn.reqs[p].result = "d1" /\ fn.reqs[q].result = "d2"
          /\ fn.reqs[p].wrote.exp = TtlTicks
          /\ fn.reqs[q].wrote.exp = TtlTicks + 1
          /\ fn.cache[MapIndex(fn.cache, fn.reqs[q].id)] = fn.reqs[q].wrote

\* ---------------------------------------------------------------------
\* Bounded-concurrency helper and candidate enrichment
\* (runWithLimit, GET /api/competitive-snapshot, analyzeHandler)
\* ---------------------------------------------------------------------

MaxTasks == 3
MaxLimit == 3
SnapshotLimit == 2
TaskOutcomes == {"a", "b", "reject"}
TaskLists == UNION {[1..n -> TaskOutcomes] : n \in 0..MaxTasks}
Unresolved == <<"unresolved">>

MkLimit(route, limit, tasks, phase, i, active, st, results, starts, resolved, out, order) ==
  [op |-> "limit", route |-> route, limit |-> limit, tasks |-> tasks,
   phase |-> phase, i |-> i, active |-> active, st |-> st,
   results |-> results, starts |-> starts, resolved |-> resolved, out |-> out,
   order |-> order]

\* const results = new Array(tasks.length); let i = 0, active = 0
InitLimit ==
  /\ server = "" /\ req = NoReq /\ pc = "idle" /\ placeId = NoPlace
  /\ details = NoDetails /\ site = NoSite /\ resp = NoResp /\ prev = NoPrev
  /\ AuxIdle
  /\ \E route \in {"helper", "snapshot", "analyze"}, tasks \in TaskLists :
       \E limit \in (IF route = "helper" THEN 0..MaxLimit
                     ELSE IF route = "snapshot" THEN {SnapshotLimit} ELSE {0}) :
         fn = MkLimit(route, limit, tasks, "new", 0, 0,
                      [k \in 1..Len(tasks) |-> "idle"],
                      [k \in 1..Len(tasks) |-> "hole"],
                      [k \in 1..Len(tasks) |-> 0], 0, Unresolved, <<>>)

\* resolve(results): a promise keeps the first value it is resolved with
Resolve(f) ==
  [f EXCEPT !.resolved = @ + 1,
            !.out = IF f.out = Unresolved THEN f.results ELSE @]

DrainedEarly(f) == f.i = Len(f.tasks)

\* if (i === tasks.length && active === 0)
Drained(f) == f.i = Len(f.tasks) /\ f.active = 0

\* while (active < limit && i < tasks.length) { const idx = i++; active++; ... }
Launch(f) ==
  LET room == IF f.limit > f.active THEN f.limit - f.active ELSE 0
      k    == Min(room, Len(f.tasks) - f.i)
  IN  [f EXCEPT !.i = @ + k, !.active = @ + k,
                !.st = [j \in 1..Len(f.tasks) |->
                          IF j > f.i /\ j <= f.i + k THEN "queued" ELSE f.st[j]]]

\* const next = () => { ... }
RunNext(f) == IF Drained(f) THEN Resolve(f) ELSE Launch(f)

\* results[idx] = val   /   .catch(() => { results[idx] = null; })
SlotValue(o) == IF o = "reject" THEN "null" ELSE o

StoreInOrderOfCompletion(f, idx) ==
  LET firstHole == CHOOSE j \in 1..Len(f.tasks) :
                     /\ f.results[j] = "hole"
                     /\ \A h \in 1..(j - 1) : f.results[h] # "hole"
  IN  [f EXCEPT !.results[firstHole] = SlotValue(f.tasks[idx]), !.st[idx] = "stored"]

StoreSlot(f, idx) ==
  [f EXCEPT !.results[idx] = SlotValue(f.tasks[idx]), !.st[idx] = "stored"]

LimitDone(f) == fn' = f /\ UNCHANGED <<server, req, pc, placeId, details, site, resp, prev, aux>>

\* runWithLimit(limit, tasks): the executor calls next() at once;
\* candidates.slice(0, 5).map(async c => ...) starts every details call at once
LimitStart ==
  /\ fn.op = "limit" /\ fn.phase = "new"
  /\ IF fn.route = "analyze"
     THEN LimitDone([fn EXCEPT !.phase = "running", !.i = Len(fn.tasks),
                               !.active = Len(fn.tasks),
                               !.st = [j \in 1..Len(fn.tasks) |-> "inflight"],
                               !.starts = [j \in 1..Len(fn.tasks) |-> 1]])
     ELSE LimitDone(RunNext([fn EXCEPT !.phase = "running"]))

\* Promise.resolve().then(tasks[idx])
TaskCall(idx) ==
  /\ fn.op = "limit" /\ fn.phase = "running" /\ fn.route # "analyze"
  /\ idx \in 1..Len(fn.tasks) /\ fn.st[idx] = "queued"
  /\ LimitDone([fn EXCEPT !.st[idx] = "inflight", !.starts[idx] = @ + 1])

\* the upstream details call answers or fails
TaskSettle(idx) ==
  /\ fn.op = "limit" /\ fn.phase = "running"
  /\ idx \in 1..Len(fn.tasks) /\ fn.st[idx] = "inflight"
  /\ LimitDone([fn EXCEPT !.st[idx] = "settled", !.order = Append(@, idx)])

\* .then((val) => { results[idx] = val; }).catch(() => { results[idx] = null; })
TaskStore(idx) ==
  /\ fn.op = "limit" /\ fn.phase = "running" /\ fn.route # "analyze"
  /\ idx \in 1..Len(fn.tasks) /\ fn.st[idx] = "settled"
  /\ LimitDone(StoreSlot(fn, idx))

\* .finally(() => { active--; next(); })
TaskFinally(idx) ==
  /\ fn.op = "limit" /\ fn.phase = "running" /\ fn.route # "analyze"
  /\ idx \in 1..Len(fn.tasks) /\ fn.st[idx] = "stored"
  /\ LimitDone(RunNext([fn EXCEPT !.st[idx] = "done", !.active = @ - 1]))

\* the async map callback returns its enriched candidate (det is null on failure)
EnrichReturn(idx) ==
  /\ fn.op = "limit" /\ fn.phase = "running" /\ fn.route = "analyze"
  /\ idx \in 1..Len(fn.tasks) /\ fn.st[idx] = "settled"
  /\ LimitDone([fn EXCEPT !.results[idx] = SlotValue(fn.tasks[idx]),
                          !.st[idx] = "done", !.active = @ - 1])

\* await Promise.all(...) continues once every callback has returned
EnrichAllDone ==
  /\ fn.op = "limit" /\ fn.phase = "running" /\ fn.route = "analyze"
  /\ fn.resolved = 0
  /\ \A j \in 1..Len(fn.tasks) : fn.st[j] = "done"
  /\ LimitDone(Resolve(fn))

NextLimit ==
  \/ LimitStart
  \/ \E idx \in 1..MaxTasks : TaskCall(idx)
  \/ \E idx \in 1..MaxTasks : TaskSettle(idx)
  \/ \E idx \in 1..MaxTasks : TaskStore(idx)
  \/ \E idx \in 1..MaxTasks : TaskFinally(idx)
  \/ \E idx \in 1..MaxTasks : EnrichReturn(idx)
  \/ EnrichAllDone

SpecLimit == InitLimit /\ [][NextLimit]_vars

SpecLimitLive == SpecLimit /\ WF_vars(NextLimit)

InFlight(f) == Cardinality({j \in 1..Len(f.tasks) : f.st[j] = "inflight"})

\* C31: during candidate-details enrichment (the snapshot route's
\* runWithLimit(2, tasks) and the analyze handler's Promise.all over the first
\* five candidates) at most 2 details calls are in flight at any time.
C31_AtMostTwoInFlight ==
  (fn.op = "limit" /\ fn.route \in {"snapshot", "analyze"}) => InFlight(fn) <= SnapshotLimit

Helper(f) == f.op = "limit" /\ f.route \in {"helper", "snapshot"}

StartedOnceResolvedOnce(f) ==
  /\ \A j \in 1..Len(f.tasks) : f.starts[j] <= 1
  /\ f.resolved <= 1
  /\ f.resolved = 1 => \A j \in 1..Len(f.tasks) : f.starts[j] = 1 /\ f.st[j] = "done"

\* C37: for a limit of at least 1 and any task list, the empty one included,
\* runWithLimit starts each task exactly once and resolves its promise exactly
\* once, after all tasks have settled; as long as the started tasks settle it
\* always gets to that resolution.
C37_RunsAllResolvesOnce ==
  /\ []((Helper(fn) /\ fn.limit >= 1) => StartedOnceResolvedOnce(fn))
  /\ ((Helper(fn) /\ fn.limit >= 1) ~> (fn.resolved = 1))

C37_Witness ==
  /\ Helper(fn) /\ fn.limit >= 1 /\ fn.limit < Len(fn.tasks)
  /\ fn.resolved = 1
  /\ \E j \in 1..Len(fn.tasks) : fn.tasks[j] = "reject"

\* C38: the array runWithLimit resolves with has one slot per task, and slot i
\* holds what task i resolved with, or null when task i rejected, whatever the
\* order in which the tasks completed.
C38_ResultsIndexAligned ==
  (Helper(fn) /\ fn.out # Unresolved) =>
     /\ Len(fn.out) = Len(fn.tasks)
     /\ \A j \in 1..Len(fn.tasks) :
          fn.out[j] = (IF fn.tasks[j] = "reject" THEN "null" ELSE fn.tasks[j])

C38_Witness ==
  /\ Helper(fn) /\ fn.out # Unresolved /\ fn.limit >= 2
  /\ Len(fn.tasks) = MaxTasks
  /\ fn.tasks[1] = "a" /\ fn.tasks[2] = "b" /\ fn.tasks[3] = "reject"
  /\ fn.order[1] = 2 /\ fn.order[2] = 1

\* ---------------------------------------------------------------------
\* The order of the candidates resolvePlace returns (part_002:337-357)
\* ---------------------------------------------------------------------

\* descending by similarity to the name, then strength, then review count:
\* no candidate of the list ranks before one placed ahead of it
OrderedFor(name, cands) ==
    \A i, j \in 1..Len(cands) :
        i < j => ~RanksBefore(name, cands[j], cands[i])

\* C32: the place resolvePlace selects is the first of its candidates in
\* descending order of similarity to the requested name, then strength
\* (rating x 20 + min(reviews, 100)), then review count, and the candidate
\* list it returns is in that order.
C32_SelectedIsTopRanked ==
    (rs.phase = "done" /\ rs.out.ok) =>
        /\ OrderedFor(rs.name, rs.out.candidates)
        /\ rs.out.placeId = rs.out.candidates[1].placeId

\* ---------------------------------------------------------------------
\* Fetching and scoring the homepage: the site sections of three
\* POST /api/analyze handlers (part_003:1176-1293, part_002:417 and 472-479,
\* api/server.js:1021-1039).  up is whether the site answers at all.
\* ---------------------------------------------------------------------

HomeImpls == {"part_003", "part_002", "api/server.js"}

\* extracted: "no", "page" (the extractor ran on the fetched markup) or
\* "empty" (it ran on the empty string)
MkHome(impl, fast, url, up, phase, probe, fetched, page, extracted, siteScore) ==
    [op |-> "homepage", impl |-> impl, fast |-> fast, url |-> url, up |-> up,
     phase |-> phase, probe |-> probe, fetched |-> fetched, page |-> page,
     extracted |-> extracted, siteScore |-> siteScore]

InitHome ==
    /\ server = "" /\ req = NoReq /\ pc = "idle" /\ placeId = NoPlace
    /\ details = NoDetails /\ site = NoSite /\ resp = NoResp /\ prev = NoPrev
    /\ AuxIdle
    /\ \E impl \in HomeImpls, fast \in BOOLEAN, url \in BOOLEAN, up \in BOOLEAN :
         fn = MkHome(impl, fast, url, up, "probe", "none", FALSE, NoPage, "no", 0)

HomeDone(f) ==
    fn' = f /\ UNCHANGED <<server, req, pc, placeId, details, site, resp, prev, aux>>

\* part_003: if (officialWebsite) siteProbe = await probeSite(...);
\* part_002: siteProbe = siteUrl ? await probeSite(siteUrl) : { ok: false };
\* api/server.js has no probe
HomeProbe ==
    /\ fn.op = "homepage" /\ fn.phase = "probe"
    /\ IF fn.impl = "api/server.js" \/ ~fn.url
       THEN HomeDone([fn EXCEPT !.phase = "fetch"])
       ELSE \E reachable \in BOOLEAN :
              /\ reachable => fn.up
              /\ HomeDone([fn EXCEPT !.phase = "fetch",
                             !.probe = IF reachable THEN "reachable"
                                       ELSE "unreachable"])

\* whether the handler calls fetchHtml
FetchesHtml(f) ==
    CASE f.impl = "part_003" -> f.url /\ ~f.fast /\ f.probe = "reachable"
      [] f.impl = "part_002" -> f.url /\ f.probe = "reachable" /\ ~f.fast
      [] OTHER               -> ~f.fast /\ f.url

\* await fetchHtml(url): markup, or nothing (site down, error status, abort,
\* or a body that is not text/html)
HomeFetch ==
    /\ fn.op = "homepage" /\ fn.phase = "fetch"
    /\ IF FetchesHtml(fn)
       THEN \E pg \in Pages \cup {NoPage} :
              /\ pg # NoPage => fn.up
              /\ HomeDone([fn EXCEPT !.phase = "extract", !.fetched = TRUE,
                                     !.page = pg])
       ELSE HomeDone([fn EXCEPT !.phase = "extract"])

\* part_003 and api/server.js: scoreCTA / scoreSEO run inside
\* if (html && contentType.includes("text/html")); part_002: within
\* if (siteUrl && (siteProbe.ok || !fast)) extractSiteSignals runs on the
\* markup or on "" and scoreWebsite scores the outcome
Extracts(f) ==
    IF f.impl = "part_002"
    THEN IF f.url /\ (f.probe = "reachable" \/ ~f.fast)
         THEN (IF f.page # NoPage THEN "page" ELSE "empty")
         ELSE "no"
    ELSE IF f.fetched /\ f.page # NoPage THEN "page" ELSE "no"

HomeExtract ==
    /\ fn.op = "homepage" /\ fn.phase = "extract"
    /\ HomeDone([fn EXCEPT
         !.phase = "done",
         !.extracted = Extracts(fn),
         !.siteScore =
            IF fn.impl = "part_002"
            THEN PathsSiteScore([websiteUrl |-> IF fn.url THEN "ok" ELSE "none",
                                 fast |-> fn.fast],
                                MkSite(fn.url, fn.url, fn.probe = "reachable",
                                       fn.page))
            ELSE IF Extracts(fn) = "page" THEN fn.page.seo ELSE 0])

NextHome == HomeProbe \/ HomeFetch \/ HomeExtract

SpecHome == InitHome /\ [][NextHome]_vars

\* C33: the homepage is fetched and the SEO/CTA extractor runs only when the
\* probe found the site reachable and the request is not in fast mode.
C33_HomepageOnlyWhenReachableNotFast ==
    (fn.op = "homepage" /\ (fn.fetched \/ fn.extracted # "no"))
        => (fn.probe = "reachable" /\ ~fn.fast)

\* C34: candidate records live within one request: a candidate list or
\* selection that resolvePlace returns was computed by that call, never kept
\* in process state by an earlier call and served from there.
C34_CandidatesNotRetained ==
    /\ (rs.phase = "done" /\ rs.out.ok) => ~rs.hit
    /\ \A e \in placeCache : e.val.candidates = <<>>

\* ---------------------------------------------------------------------
\* External calls and their time limits.  A handler awaits its upstream
\* calls one after the other; an upstream answers, fails or stays silent.
\* mech is what bounds the await: "client" (the timeout option of the maps
\* client or of puppeteer), "abort" (an AbortController whose signal is
\* passed to fetch), "race" (withTimeout), "unwired" (an AbortController
\* whose signal is passed to nobody) or "none" (no limit at all).
\* ---------------------------------------------------------------------

MkExt(kind, mech, onFail) == [kind |-> kind, mech |-> mech, onFail |-> onFail]

\* POST /api/analyze of src/api/server.js (268-375) with Gemini enabled
ServerJsCalls ==
    << MkExt("directory search", "client", "respond"),
       MkExt("details", "client", "continue"),
       MkExt("llm", "unwired", "continue") >>

\* analyzeHandler of part_002 (1747-2057) with ad scraping enabled; the
\* scrape is bounded by the timeout options of page.goto / waitForSelector
ClarifyCalls ==
    << MkExt("geocode", "client", "continue"),
       MkExt("directory search", "client", "continue"),
       MkExt("details", "client", "continue"),
       MkExt("ad-scrape", "client", "continue"),
       MkExt("llm", "race", "continue") >>

\* POST /api/analyze of part_003 (1141-1354)
V1Calls ==
    << MkExt("directory search", "client", "continue"),
       MkExt("details", "client", "respond"),
       MkExt("website probe", "abort", "continue"),
       MkExt("homepage fetch", "abort", "continue") >>

ExternalCalls(impl) ==
    CASE impl = "api/server.js" -> ServerJsCalls
      [] impl = "clarify"       -> ClarifyCalls
      [] OTHER                  -> V1Calls

\* the await ends when the time limit passes
Bounded(mech) == mech \in {"client", "abort", "race"}

Upstreams == {"answer", "error", "silent"}

MkExternal(impl, at, phase, up, timer, log) ==
    [op |-> "external", impl |-> impl, at |-> at, phase |-> phase, up |-> up,
     timer |-> timer, log |-> log]

InitExternal ==
    /\ server = "" /\ req = NoReq /\ pc = "idle" /\ placeId = NoPlace
    /\ details = NoDetails /\ site = NoSite /\ resp = NoResp /\ prev = NoPrev
    /\ AuxIdle
    /\ \E impl \in {"api/server.js", "clarify", "v1"} :
         fn = MkExternal(impl, 1, "ready", "", "off", <<>>)

ExtDone(f) ==
    fn' = f /\ UNCHANGED <<server, req, pc, placeId, details, site, resp, prev, aux>>

CurrentCall(f) == ExternalCalls(f.impl)[f.at]

\* the handler issues its next call and awaits it
ExtCall ==
    /\ fn.op = "external" /\ fn.phase = "ready"
    /\ fn.at <= Len(ExternalCalls(fn.impl))
    /\ \E up \in Upstreams :
         ExtDone([fn EXCEPT !.phase = "awaiting", !.up = up,
                    !.timer = IF CurrentCall(fn).mech = "none" THEN "off"
                              ELSE "armed"])

\* the await is over: the handler goes on, or answers from its catch
AfterAwait(f, outcome) ==
    IF outcome # "answer" /\ CurrentCall(f).onFail = "respond"
    THEN [f EXCEPT !.phase = "responded", !.timer = "off",
                   !.log = Append(@, outcome)]
    ELSE [f EXCEPT !.phase = "ready", !.at = @ + 1, !.timer = "off",
                   !.log = Append(@, outcome)]

\* the upstream answers or fails; clearTimeout
ExtAnswer ==
    /\ fn.op = "external" /\ fn.phase = "awaiting"
    /\ fn.up \in {"answer", "error"}
    /\ ExtDone(AfterAwait(fn, fn.up))

\* the time limit passes: the awaited promise rejects, or, for a controller
\* nobody listens to, ctl.abort() changes nothing
ExtTimeout ==
    /\ fn.op = "external" /\ fn.phase = "awaiting" /\ fn.timer = "armed"
    /\ IF Bounded(CurrentCall(fn).mech)
       THEN ExtDone(AfterAwait(fn, "timeout"))
       ELSE ExtDone([fn EXCEPT !.timer = "fired"])

\* res.json(...)
ExtRespond ==
    /\ fn.op = "external" /\ fn.phase = "ready"
    /\ fn.at > Len(ExternalCalls(fn.impl))
    /\ ExtDone([fn EXCEPT !.phase = "responded"])

NextExternal == ExtCall \/ ExtAnswer \/ ExtTimeout \/ ExtRespond

SpecExternal == InitExternal /\ [][NextExternal]_vars

\* calls that are answered are answered in time, timers fire, handlers run
SpecExternalLive == SpecExternal /\ WF_vars(NextExternal)

\* C35: every external call of an analyze request has a time limit that ends
\* its await, so every request is answered even when an upstream stays silent.
C35_EveryCallBoundedEveryRequestAnswered ==
    /\ []((fn.op = "external" /\ fn.phase = "awaiting")
            => Bounded(CurrentCall(fn).mech))
    /\ ((fn.op = "external") ~> (fn.phase = "responded"))

\* ---------------------------------------------------------------------
\* The nocache flag.  The handlers of part_002 share _cache, those of
\* part_003 share cache; each cached stage of a handler reads its key unless
\* the request bypasses the cache, and stores what it fetched.
\* ---------------------------------------------------------------------

MaxNcReqs == 3
NcQueries == {"", "1", "true"}
NcValues == {"v1", "v2"}
NcKeys == {"place", "details", "comp", "geom", "textsearch", "html"}

\* the cached stages of a route, in the order the handler runs them
NcStages(route) ==
    CASE route = "analyze002"  -> <<"place", "details">>
      [] route = "snapshot002" -> <<"comp">>
      [] route = "analyze003"  -> <<"details", "html">>
      [] OTHER                 -> <<"geom", "textsearch", "details">>

NcRoutes(gen) ==
    IF gen = "part_002" THEN {"analyze002", "snapshot002"}
    ELSE {"analyze003", "snapshot003"}

\* part_002: !!req.query?.nocache || !!req.body?.nocache; its snapshot route:
\* !!req.query?.nocache; part_003: String(req.query?.nocache || "").trim() === "1"
noCache(route, query, body) ==
    CASE route = "analyze002"  -> query # "" \/ body
      [] route = "snapshot002" -> query # ""
      [] OTHER                 -> query = "1"

ReadsCacheAlways(bypassCache) == TRUE

\* details = bypassCache ? null : cacheGet(k);  if (!bypassCache) { ... }
ReadsCache(bypassCache) == ~bypassCache

MkNcReq(route, query, body, at, got) ==
    [route |-> route, query |-> query, body |-> body, at |-> at, got |-> got]

NoNcReq == MkNcReq("", "", FALSE, 0, <<>>)

MkNoCache(gen, cache, n, cur) ==
    [op |-> "nocache", gen |-> gen, cache |-> cache, n |-> n, cur |-> cur]

InitNoCache ==
    /\ server = "" /\ req = NoReq /\ pc = "idle" /\ placeId = NoPlace
    /\ details = NoDetails /\ site = NoSite /\ resp = NoResp /\ prev = NoPrev
    /\ AuxIdle
    /\ \E gen \in {"part_002", "part_003"} :
         fn = MkNoCache(gen, [k \in NcKeys |-> "absent"], 0, NoNcReq)

NcDone(f) ==
    fn' = f /\ UNCHANGED <<server, req, pc, placeId, details, site, resp, prev, aux>>

\* a request arrives, once the one before it was answered
NcReceive ==
    /\ fn.op = "nocache" /\ fn.n < MaxNcReqs
    /\ fn.cur.route = "" \/ fn.cur.at > Len(NcStages(fn.cur.route))
    /\ \E route \in NcRoutes(fn.gen), query \in NcQueries, body \in BOOLEAN :
         NcDone([fn EXCEPT !.n = @ + 1,
                           !.cur = MkNcReq(route, query, body, 1, <<>>)])

\* one cached stage: the value comes from the cache, or from the upstream
\* call, whose result is stored; a failed call gives no value
NcStage ==
    /\ fn.op = "nocache" /\ fn.cur.route # ""
    /\ fn.cur.at <= Len(NcStages(fn.cur.route))
    /\ LET r == fn.cur
           k == NcStages(r.route)[r.at]
           had == fn.cache[k]
       IN  IF ReadsCache(noCache(r.route, r.query, r.body)) /\ had # "absent"
           THEN NcDone([fn EXCEPT
                  !.cur.at = @ + 1,
                  !.cur.got = Append(@, [key |-> k, val |-> had,
                                         from |-> "cache", had |-> had])])
           ELSE \/ \E v \in NcValues :
                     NcDone([fn EXCEPT
                       !.cache[k] = v,
                       !.cur.at = @ + 1,
                       !.cur.got = Append(@, [key |-> k, val |-> v,
                                              from |-> "upstream", had |-> had])])
                \/ NcDone([fn EXCEPT !.cur.at = Len(NcStages(r.route)) + 1])

\* the TTL of an entry passes
NcExpire ==
    /\ fn.op = "nocache"
    /\ \E k \in NcKeys :
         /\ fn.cache[k] # "absent"
         /\ NcDone([fn EXCEPT !.cache[k] = "absent"])

NextNoCache == NcReceive \/ NcStage \/ NcExpire

SpecNoCache == InitNoCache /\ [][NextNoCache]_vars

\* C36: a request made with the nocache flag (?nocache=1) is never answered
\* from a cached place resolution, details or competitor result: every such
\* value it has came from an upstream call made during the request.
C36_NoCacheNeverServedFromCache ==
    (fn.op = "nocache" /\ fn.cur.query = "1") =>
        \A i \in 1..Len(fn.cur.got) : fn.cur.got[i].from = "upstream"

\* a flagged request went through all its stages while the cache held another
\* value under one of its keys
C36_Witness ==
    /\ fn.op = "nocache" /\ fn.cur.query = "1"
    /\ fn.cur.route \in {"analyze002", "snapshot003"}
    /\ Len(fn.cur.got) = Len(NcStages(fn.cur.route))
    /\ \E i \in 1..Len(fn.cur.got) :
         fn.cur.got[i].had = "v1" /\ fn.cur.got[i].val = "v2"

\* ---------------------------------------------------------------------
\* Eviction from PLACE_CACHE (part_002:1515-1532) under arbitrary sequences
\* of getFromCache / setCache.  used is, per key, the number of the latest
\* operation that wrote the key or read it with a hit (0: not in use).
\* The limit of 500 entries is scaled to LruAbove.
\* ---------------------------------------------------------------------

MaxOps == 5
LruAbove == 2
\* one place id more than the cache may hold
LruKeyNames == <<"p1", "p2", "p3", "p4", "p5">>
LruKeys == {LruKeyNames[i] : i \in 1..(LruAbove + 1)}

NoOp == [kind |-> "", k |-> "", grown |-> <<>>, evicted |-> {}, usedThen |-> <<>>]

MkLru(now, cache, ops, used, last) ==
    [op |-> "lru", now |-> now, cache |-> cache, ops |-> ops, used |-> used,
     last |-> last]

InitLru ==
    /\ server = "" /\ req = NoReq /\ pc = "idle" /\ placeId = NoPlace
    /\ details = NoDetails /\ site = NoSite /\ resp = NoResp /\ prev = NoPrev
    /\ AuxIdle
    /\ fn = MkLru(0, <<>>, 0, [k \in LruKeys |-> 0], NoOp)

LruDone(f) ==
    fn' = f /\ UNCHANGED <<server, req, pc, placeId, details, site, resp, prev, aux>>

MapKeys(c) == {c[i].k : i \in 1..Len(c)}

\* setCache(id, val): grown is the Map after the set and before the size
\* check, evicted the keys the size check removed
LruSet(k) ==
    /\ fn.op = "lru" /\ fn.ops < MaxOps
    /\ LET c1 == MapSet(fn.cache, MkEntry(k, "d1", fn.now + TtlTicks))
           c2 == setCacheAbove(LruAbove, fn.cache, k, "d1", fn.now)
           gone == MapKeys(c1) \ MapKeys(c2)
           u1 == [fn.used EXCEPT ![k] = fn.ops + 1]
       IN  LruDone([fn EXCEPT
             !.cache = c2,
             !.ops = @ + 1,
             !.used = [j \in LruKeys |-> IF j \in gone THEN 0 ELSE u1[j]],
             !.last = [kind |-> "set", k |-> k, grown |-> c1,
                       evicted |-> gone, usedThen |-> u1]])

\* getFromCache(id)
LruGet(k) ==
    /\ fn.op = "lru" /\ fn.ops < MaxOps
    /\ LET rd == getFromCache(fn.cache, k, fn.now)
       IN  LruDone([fn EXCEPT
             !.cache = rd.cache,
             !.ops = @ + 1,
             !.used = [j \in LruKeys |->
                         IF j # k THEN fn.used[j]
                         ELSE IF rd.val # "absent" THEN fn.ops + 1 ELSE 0],
             !.last = [kind |-> "get", k |-> k, grown |-> rd.cache,
                       evicted |-> {}, usedThen |-> fn.used]])

\* time passes
LruTick ==
    /\ fn.op = "lru" /\ fn.now < MaxTime
    /\ LruDone([fn EXCEPT !.now = @ + 1])

NextLru ==
    \/ \E k \in LruKeys : LruSet(k)
    \/ \E k \in LruKeys : LruGet(k)
    \/ LruTick

SpecLru == InitLru /\ [][NextLru]_vars

Overfull(f) == f.last.kind = "set" /\ Len(f.last.grown) > LruAbove

\* the key in use for the longest time without a hit or a write
LeastRecentlyUsed(f, k) ==
    \A j \in MapKeys(f.last.grown) : f.last.usedThen[k] <= f.last.usedThen[j]

\* C39: when a setCache insertion makes the place cache exceed its limit
\* (500, here LruAbove), exactly one entry is evicted, it is the least
\* recently used one (read with a hit or written longest ago), it is never
\* the entry just written, and the cache never holds more than the limit.
C39_EvictsLeastRecentlyUsed ==
    fn.op = "lru" =>
       /\ Len(fn.cache) <= LruAbove
       /\ Overfull(fn) =>
            /\ Cardinality(fn.last.evicted) = 1
            /\ fn.last.k \notin fn.last.evicted
            /\ \A k \in fn.last.evicted : LeastRecentlyUsed(fn, k)

\* ---------------------------------------------------------------------
\* The shared browser of the ad scrape: getBrowser (part_002:1667-1683,
\* widget.js:1581-1592).  shared is sharedBrowserPromise: 0 while undefined,
\* else the number of the launch it belongs to.
\* ---------------------------------------------------------------------

MaxCallers == 3

\* part_002: executablePath: await chromium.executablePath();
\* widget.js: executablePath: isVercel ? await chromium.executablePath() : undefined
BrowserImpls == {"part_002", "widget.js on Vercel", "widget.js elsewhere"}

AwaitsPath(impl) == impl # "widget.js elsewhere"

MkCaller(at, got) == [pc |-> at, got |-> got]

MkBrowser(impl, shared, launches, callers) ==
    [op |-> "browser", impl |-> impl, shared |-> shared,
     launches |-> launches, callers |-> callers]

InitBrowser ==
    /\ server = "" /\ req = NoReq /\ pc = "idle" /\ placeId = NoPlace
    /\ details = NoDetails /\ site = NoSite /\ resp = NoResp /\ prev = NoPrev
    /\ AuxIdle
    /\ \E impl \in BrowserImpls :
         fn = MkBrowser(impl, 0, 0, [p \in 1..MaxCallers |-> MkCaller("idle", 0)])

BrowserDone(f) ==
    fn' = f /\ UNCHANGED <<server, req, pc, placeId, details, site, resp, prev, aux>>

\* sharedBrowserPromise = puppeteer.launch({...}); return sharedBrowserPromise;
Launched(f, p) ==
    [f EXCEPT !.launches = @ + 1, !.shared = f.launches + 1,
              !.callers[p] = MkCaller("returned", f.launches + 1)]

\* getBrowser() up to its first await: if (!sharedBrowserPromise) { ... }
GetBrowser(p) ==
    /\ fn.op = "browser" /\ fn.callers[p].pc = "idle"
    /\ IF fn.shared # 0
       THEN BrowserDone([fn EXCEPT !.callers[p] = MkCaller("returned", fn.shared)])
       ELSE IF AwaitsPath(fn.impl)
       THEN BrowserDone([fn EXCEPT !.callers[p].pc = "path"])
       ELSE BrowserDone(Launched(fn, p))

\* await chromium.executablePath() resolves: the launch is started and its
\* promise assigned, whatever sharedBrowserPromise holds by now
PathResolved(p) ==
    /\ fn.op = "browser" /\ fn.callers[p].pc = "path"
    /\ BrowserDone(Launched(fn, p))

\* await chromium.executablePath() rejects: getBrowser rejects, no launch
PathRejected(p) ==
    /\ fn.op = "browser" /\ fn.callers[p].pc = "path"
    /\ BrowserDone([fn EXCEPT !.callers[p].pc = "failed"])

NextBrowser ==
    \/ \E p \in 1..MaxCallers : GetBrowser(p)
    \/ \E p \in 1..MaxCallers : PathResolved(p)
    \/ \E p \in 1..MaxCallers : PathRejected(p)

SpecBrowser == InitBrowser /\ [][NextBrowser]_vars

\* C40: under any interleaving of concurrent getBrowser calls at most one
\* browser launch is started and every caller gets that one browser.
C40_OneSharedBrowser ==
    fn.op = "browser" =>
       /\ fn.launches <= 1
       /\ \A p, q \in 1..MaxCallers :
            (fn.callers[p].pc = "returned" /\ fn.callers[q].pc = "returned")
               => fn.callers[p].got = fn.callers[q].got

====
